---- MODULE Spec2Model ----
(***************************************************************************)
(* Bitcoin anchoring service: the anchoring schema (lects, known           *)
(* transactions, known signatures), the quorum computation over lects and  *)
(* the per-commit state classification of the anchoring handler.           *)
(***************************************************************************)
EXTENDS Integers, Sequences, FiniteSets, TLC

VARIABLES
    lects,              \* btc_anchoring.lects: validator key -> list of LectContent
    lect_indexes,       \* btc_anchoring.lect_indexes: validator key -> (txid -> index)
    known_txs,          \* btc_anchoring.known_txs: txid -> transaction
    signatures,         \* btc_anchoring.signatures: normalized txid -> list of messages
    known_signatures,   \* btc_anchoring.known_signatures: KnownSignatureId -> message
    genesis_cfg,        \* configuration of the genesis block (NoCfg before genesis)
    previous_cfg,       \* previous configuration of the host blockchain
    actual_cfg,         \* actual configuration
    following_cfg,      \* following configuration
    cfg_changes,        \* number of configuration proposals so far
    me,                 \* anchoring key of the node that runs the handler
    known_addresses,    \* AnchoringHandler::known_addresses
    anchoring_state,    \* what the last after_commit got from current_state
    height,             \* height of the last committed block
    broadcast,          \* signature transactions sent by the last chain-update run
    updates,            \* number of lect updates executed so far
    ops,                \* number of schema write calls so far
    last,               \* the last schema write call: its arguments and result
    lect_kind,          \* what the last collect_lects call of the handler gave
    lect_check,         \* the last listing of unspent transactions by the handler
    anchoring_transactions_chain,  \* btc_anchoring chain of anchoring transactions
    relay_txs,          \* ids of the transactions the Bitcoin relay knows
    sync_task,          \* the SyncWithBtcRelayTask that is running, or its outcome
    call,               \* the last call of a function of the service: arguments and result
    error_log,          \* the errors that the commit callback has logged
    anchored_blocks,    \* btc_anchoring.anchored_blocks: the hashes of the anchored blocks
    lect_pool           \* the lect updates that validators have published and no block holds yet

vars == <<lects, lect_indexes, known_txs, signatures, known_signatures,
          genesis_cfg, previous_cfg, actual_cfg, following_cfg, cfg_changes,
          me, known_addresses, anchoring_state, height,
          broadcast, updates, ops, last, lect_kind, lect_check,
          anchoring_transactions_chain, relay_txs, sync_task, call, error_log,
          anchored_blocks, lect_pool>>

schema_vars == <<lects, lect_indexes, known_txs, signatures, known_signatures>>
config_vars == <<genesis_cfg, previous_cfg, actual_cfg, following_cfg, cfg_changes>>
handler_vars == <<me, known_addresses, anchoring_state, height, broadcast>>
sync_vars == <<anchoring_transactions_chain, relay_txs, sync_task>>
lect_vars == <<lect_kind, lect_check>>
call_vars == <<call, error_log>>
more_vars == <<anchored_blocks, lect_pool>>
task_vars == <<lect_vars, sync_vars, call_vars, more_vars>>

-----------------------------------------------------------------------------
(* Bounds of the model. *)

MaxOps == 3
MaxUpdates == 2
MaxCfgChanges == 2
MaxHeight == 1
MaxInputs == 2
MaxConfirmations == 2
MaxChain == 3
MaxSyncHeight == 4
MaxInterval == 5
MaxLog == 3
MaxValue == 4
MaxFundings == 2
MaxAnchored == 2
MaxAuditHeight == 2
MaxKeys == 128
MaxSilent == 1

-----------------------------------------------------------------------------
(* Option values. *)

None == [some |-> FALSE]
Some(x) == [some |-> TRUE, val |-> x]

Put(m, k, v) == [x \in (DOMAIN m) \cup {k} |-> IF x = k THEN v ELSE m[x]]
EmptyMap == [x \in {} |-> 0]

-----------------------------------------------------------------------------
(* Validator keys, multisig addresses and configurations. *)

Keys == {"k1", "k2", "k3", "k4"}

\* A majority count that rounds two thirds up.
majority_count_ceil(cnt) == (cnt * 2 + 2) \div 3

\* cnt * 2 / 3 + 1 on u8: the product wraps at 2^8 in a release build.
majority_count(cnt) == ((cnt * 2) % 256) \div 3 + 1

\* The redeem script is made of the keys in configuration order and of the
\* quorum; the address is its hash.
redeem_script(keys) == [keys |-> keys, quorum |-> majority_count(Len(keys))]

Addr3 == redeem_script(<<"k1", "k2", "k3">>)
Addr4 == redeem_script(<<"k1", "k2", "k3", "k4">>)

\* Transactions: id is the txid, nid the normalized txid (the txid of the
\* transaction without its input scripts), kind what TxKind::from finds,
\* out the address of the output with the funds, prev the txid of the spent
\* transaction, chain whether the payload holds a prev_tx_chain.
TxF == [id |-> 1, nid |-> 1, kind |-> "Funding", out |-> Addr3, prev |-> 0, chain |-> FALSE]
TxF2 == [id |-> 2, nid |-> 2, kind |-> "Funding", out |-> Addr4, prev |-> 0, chain |-> FALSE]
Tx1 == [id |-> 3, nid |-> 3, kind |-> "Anchoring", out |-> Addr3, prev |-> 1, chain |-> FALSE]
Tx1s == [id |-> 4, nid |-> 3, kind |-> "Anchoring", out |-> Addr3, prev |-> 1, chain |-> FALSE]
Tx2 == [id |-> 5, nid |-> 5, kind |-> "Anchoring", out |-> Addr4, prev |-> 3, chain |-> FALSE]
TxX == [id |-> 6, nid |-> 6, kind |-> "Other", out |-> Addr3, prev |-> 0, chain |-> FALSE]

\* The chain that starts at TxF2: Tx3 spends it on the address of four keys,
\* Tx4 moves the funds to the address of three keys.
Tx3 == [id |-> 7, nid |-> 7, kind |-> "Anchoring", out |-> Addr4, prev |-> 2, chain |-> FALSE]
Tx4 == [id |-> 8, nid |-> 8, kind |-> "Anchoring", out |-> Addr3, prev |-> 7, chain |-> FALSE]

Txs == {TxF, TxF2, Tx1, Tx1s, Tx2, TxX, Tx3, Tx4}
LectTxs == {TxF, TxF2, Tx1, Tx2, TxX}
SigTxs == {Tx1, Tx1s}

\* Cfg3: the genesis configuration, three validators, funded by TxF.
\* Cfg4: Cfg3 with the validator k4 added. Cfg4F: Cfg4 funded by TxF2.
Cfg3 == [anchoring_keys |-> <<"k1", "k2", "k3">>, funding_tx |-> TxF,
         utxo_confirmations |-> 2]
Cfg4 == [anchoring_keys |-> <<"k1", "k2", "k3", "k4">>, funding_tx |-> TxF,
         utxo_confirmations |-> 2]
Cfg4F == [anchoring_keys |-> <<"k1", "k2", "k3", "k4">>, funding_tx |-> TxF2,
          utxo_confirmations |-> 2]
Configs == {Cfg3, Cfg4, Cfg4F}
GenesisConfigs == {Cfg3}
NoCfg == [anchoring_keys |-> <<>>]

cfg_address(cfg) == redeem_script(cfg.anchoring_keys)
cfg_majority_count(cfg) == majority_count(Len(cfg.anchoring_keys))

ZeroHash == <<>>
Hashes == {ZeroHash, <<1>>}

-----------------------------------------------------------------------------
(* The anchoring schema: reads. *)

\* lects(key).last().map(|x| x.tx())
lect(ls, validator_key) ==
    IF Len(ls[validator_key]) = 0 THEN None
    ELSE Some(ls[validator_key][Len(ls[validator_key])].tx)

\* A previous lect that is taken one entry too far back.
prev_lect_back(ls, validator_key) ==
    LET idx == Len(ls[validator_key])
    IN IF idx > 2 THEN Some(ls[validator_key][idx - 2].tx) ELSE None

prev_lect(ls, validator_key) ==
    LET idx == Len(ls[validator_key])
    IN IF idx > 1 THEN Some(ls[validator_key][idx - 1].tx) ELSE None

find_lect_position(li, anchoring_key, txid) ==
    IF txid \in DOMAIN li[anchoring_key] THEN Some(li[anchoring_key][txid]) ELSE None

\* The tally of collect_lects after the first n keys of the configuration:
\* a map from transaction content to the number of keys that report it
\* (an entry is inserted with 1 and counted up for every further key).
lects_tally(ls, keys, n) ==
    LET reporting == {i \in 1..n : lect(ls, keys[i]).some}
        reported == {lect(ls, keys[i]).val : i \in reporting}
    IN [tx \in reported |->
           Cardinality({i \in reporting : lect(ls, keys[i]).val = tx})]

\* A quorum test that asks for more reports than the majority count.
collect_lects_from_strict(ls, cfg) ==
    LET t == lects_tally(ls, cfg.anchoring_keys, Len(cfg.anchoring_keys))
        best == {x \in DOMAIN t : \A y \in DOMAIN t : t[y] <= t[x]}
    IN IF DOMAIN t = {} THEN {None}
       ELSE {IF t[x] > majority_count(Len(cfg.anchoring_keys)) THEN Some(x) ELSE None
                : x \in best}

\* A collect_lects that takes the entry with the largest count that comes
\* first in a fixed order of the transactions.
collect_lects_from_first(ls, cfg) ==
    LET t == lects_tally(ls, cfg.anchoring_keys, Len(cfg.anchoring_keys))
        best == {x \in DOMAIN t : \A y \in DOMAIN t : t[y] <= t[x]}
    IN IF DOMAIN t = {} THEN {None}
       ELSE LET x == CHOOSE z \in best : \A y \in best : z.id <= y.id
            IN {IF t[x] >= cfg_majority_count(cfg) THEN Some(x) ELSE None}

\* The results collect_lects can give: max_by_key takes one of the entries
\* with the largest count, which one depends on the map's iteration order.
collect_lects_from(ls, cfg) ==
    LET t == lects_tally(ls, cfg.anchoring_keys, Len(cfg.anchoring_keys))
        best == {x \in DOMAIN t : \A y \in DOMAIN t : t[y] <= t[x]}
    IN IF DOMAIN t = {} THEN {None}
       ELSE {IF t[x] >= cfg_majority_count(cfg) THEN Some(x) ELSE None : x \in best}

collect_lects(cfg) == collect_lects_from(lects, cfg)

-----------------------------------------------------------------------------
(* The anchoring schema: writes. A schema value s holds the tables. *)

SchemaNow == [lects |-> lects, lect_indexes |-> lect_indexes, known_txs |-> known_txs,
              signatures |-> signatures, known_signatures |-> known_signatures]

\* An add_lect that writes over the last entry of a list that has one.
add_lect_overwrite(s, validator_key, tx, msg_hash) ==
    LET n == Len(s.lects[validator_key])
        content == [msg_hash |-> msg_hash, tx |-> tx]
    IN [s EXCEPT !.lects[validator_key] =
                     IF n = 0 THEN <<content>> ELSE [@ EXCEPT ![n] = content],
                 !.known_txs = Put(@, tx.id, tx),
                 !.lect_indexes[validator_key] = Put(@, tx.id, n)]

\* An add_lect that records the positions counted from one.
add_lect_from_one(s, validator_key, tx, msg_hash) ==
    LET idx == Len(s.lects[validator_key]) + 1
    IN [s EXCEPT !.lects[validator_key] = Append(@, [msg_hash |-> msg_hash, tx |-> tx]),
                 !.known_txs = Put(@, tx.id, tx),
                 !.lect_indexes[validator_key] = Put(@, tx.id, idx)]

add_lect(s, validator_key, tx, msg_hash) ==
    LET idx == Len(s.lects[validator_key])
    IN [s EXCEPT !.lects[validator_key] = Append(@, [msg_hash |-> msg_hash, tx |-> tx]),
                 !.known_txs = Put(@, tx.id, tx),
                 !.lect_indexes[validator_key] = Put(@, tx.id, idx)]

RECURSIVE genesis_lects(_, _, _)
genesis_lects(s, cfg, n) ==
    IF n = 0 THEN s
    ELSE add_lect(genesis_lects(s, cfg, n - 1), cfg.anchoring_keys[n], cfg.funding_tx, ZeroHash)

\* A genesis initialization that leaves out the last validator key.
create_genesis_config_short(s, cfg) == genesis_lects(s, cfg, Len(cfg.anchoring_keys) - 1)

create_genesis_config(s, cfg) == genesis_lects(s, cfg, Len(cfg.anchoring_keys))

\* A signature id made of the txid instead of the normalized txid.
KnownSignatureId_txid(msg) == <<msg.tx.id, msg.validator, msg.input>>

KnownSignatureId(msg) == <<msg.tx.nid, msg.validator, msg.input>>

\* An add_known_signature that stores a message whose id is known and
\* keeps the first entry of known_signatures.
add_known_signature_twice(s, msg) ==
    IF KnownSignatureId(msg) \in DOMAIN s.known_signatures
    THEN [schema |-> [s EXCEPT !.signatures[msg.tx.nid] = Append(@, msg)],
          result |-> "Ok"]
    ELSE [schema |-> [s EXCEPT !.signatures[msg.tx.nid] = Append(@, msg),
                               !.known_signatures = Put(@, KnownSignatureId(msg), msg)],
          result |-> "Ok"]

\* An add_known_signature without the lookup of the signature id.
add_known_signature_unchecked(s, msg) ==
    [schema |-> [s EXCEPT !.signatures[msg.tx.nid] = Append(@, msg),
                          !.known_signatures =
                              Put(@, <<msg.tx.nid, msg.validator, msg.input>>, msg)],
     result |-> "Ok"]

add_known_signature(s, msg) ==
    LET ntxid == msg.tx.nid
        signature_id == KnownSignatureId(msg)
    IN IF signature_id \in DOMAIN s.known_signatures
       THEN [schema |-> s, result |-> "SignatureDifferent"]
       ELSE [schema |-> [s EXCEPT !.signatures[ntxid] = Append(@, msg),
                                  !.known_signatures = Put(@, signature_id, msg)],
             result |-> "Ok"]

SetSchema(s) ==
    /\ lects' = s.lects
    /\ lect_indexes' = s.lect_indexes
    /\ known_txs' = s.known_txs
    /\ signatures' = s.signatures
    /\ known_signatures' = s.known_signatures

-----------------------------------------------------------------------------
(* The anchoring handler: the classification made at every commit. *)

\* context.validator_id(): the position of the node's key among the
\* validators of the actual configuration.
validator_id(node, cfg) ==
    IF \E i \in 1..Len(cfg.anchoring_keys) : cfg.anchoring_keys[i] = node
    THEN Some((CHOOSE i \in 1..Len(cfg.anchoring_keys) : cfg.anchoring_keys[i] = node) - 1)
    ELSE None

anchoring_key(cfg, vid) == cfg.anchoring_keys[vid.val + 1]

\* What the relay can answer to get_transaction_confirmations.
RelayError == [error |-> TRUE]
ConfirmationAnswers ==
    {RelayError} \cup {None} \cup {Some(n) : n \in 0..MaxConfirmations}
RelayAnswers ==
    [watch_actual : BOOLEAN, watch_following : BOOLEAN, confirmations : ConfirmationAnswers]

\* An import that goes on when the relay refuses to watch the address.
import_address_lenient(known, addr, watch_ok) ==
    IF addr \notin known /\ watch_ok
    THEN [ok |-> TRUE, known |-> known \cup {addr}]
    ELSE [ok |-> TRUE, known |-> known]

\* An import that records the address before the relay has answered.
import_address_eager(known, addr, watch_ok) ==
    IF addr \notin known
    THEN [ok |-> watch_ok, known |-> known \cup {addr}]
    ELSE [ok |-> TRUE, known |-> known]

import_address(known, addr, watch_ok) ==
    IF addr \notin known
    THEN IF watch_ok THEN [ok |-> TRUE, known |-> known \cup {addr}]
         ELSE [ok |-> FALSE, known |-> known]
    ELSE [ok |-> TRUE, known |-> known]

\* A test that compares the actual address with the address of the actual
\* configuration instead of the following one.
following_config_is_transition_self(actual_addr) ==
    IF following_cfg # NoCfg /\ actual_addr # cfg_address(actual_cfg)
    THEN Some(following_cfg)
    ELSE None

following_config_is_transition(actual_addr) ==
    IF following_cfg # NoCfg /\ actual_addr # cfg_address(following_cfg)
    THEN Some(following_cfg)
    ELSE None

\* A depth test that asks for more than utxo_confirmations.
is_enough_confirmations_strict(cfg, confirmations) ==
    IF confirmations.some THEN confirmations.val > cfg.utxo_confirmations ELSE FALSE

is_enough_confirmations(cfg, confirmations) ==
    IF confirmations.some THEN confirmations.val >= cfg.utxo_confirmations ELSE FALSE

\* A transition test that compares the output of the lect with itself.
actual_lect_is_transition_self(actual_lect) ==
    IF actual_lect.chain THEN "no"
    ELSE IF actual_lect.prev \in DOMAIN known_txs /\ known_txs[actual_lect.prev].kind = "Other"
    THEN "panic"
    ELSE "no"

\* A transition test that compares the output of every funding transaction.
actual_lect_is_transition_any_funding(actual_lect) ==
    IF actual_lect.chain THEN "no"
    ELSE IF actual_lect.prev \in DOMAIN known_txs
    THEN LET prev == known_txs[actual_lect.prev]
         IN CASE prev.kind = "Anchoring" ->
                    IF prev.out # actual_lect.out THEN "yes" ELSE "no"
              [] prev.kind = "Funding" ->
                    IF prev.out # actual_lect.out THEN "yes" ELSE "no"
              [] OTHER -> "panic"
    ELSE "no"

\* "yes", "no", or "panic" when the previous transaction is of no known kind.
actual_lect_is_transition(actual_lect) ==
    IF actual_lect.chain THEN "no"
    ELSE IF actual_lect.prev \in DOMAIN known_txs
    THEN LET prev == known_txs[actual_lect.prev]
         IN CASE prev.kind = "Anchoring" ->
                    IF prev.out # actual_lect.out THEN "yes" ELSE "no"
              [] prev.kind = "Funding" ->
                    IF prev = genesis_cfg.funding_tx
                    THEN IF cfg_address(genesis_cfg) # actual_lect.out THEN "yes" ELSE "no"
                    ELSE "no"
              [] OTHER -> "panic"
    ELSE "no"

Err == [kind |-> "Err"]
Panic == [kind |-> "Panic"]
Auditing(cfg) == [kind |-> "Auditing", cfg |-> cfg]
Anchoring(cfg) == [kind |-> "Anchoring", cfg |-> cfg]
Transition(from, to) == [kind |-> "Transition", from |-> from, to |-> to]
Waiting(l, confirmations) == [kind |-> "Waiting", lect |-> l, confirmations |-> confirmations]
\* previous_anchoring_config().unwrap() / .expect(..) aborts without one.
Recovering(prev_cfg, actual) ==
    IF prev_cfg = NoCfg THEN Panic
    ELSE [kind |-> "Recovering", prev_cfg |-> prev_cfg, actual_cfg |-> actual]

\* A classification without a lect that looks at the output of a funding
\* transaction instead of the address of the previous configuration.
state_without_lect_by_output(actual, actual_addr, prev_quorum) ==
    IF previous_cfg = NoCfg THEN Panic
    ELSE IF ~prev_quorum.some THEN Recovering(previous_cfg, actual)
    ELSE IF prev_quorum.val.kind = "Other" THEN Panic
    ELSE IF prev_quorum.val.out # actual_addr THEN Recovering(previous_cfg, actual)
    ELSE Anchoring(actual)

\* The validator has no lect: prev_quorum is collect_lects(prev_cfg).
state_without_lect(actual, actual_addr, prev_quorum) ==
    IF previous_cfg = NoCfg THEN Panic
    ELSE LET is_recovering ==
                 IF prev_quorum.some
                 THEN CASE prev_quorum.val.kind = "Funding" ->
                              IF cfg_address(previous_cfg) # actual_addr THEN "yes" ELSE "no"
                        [] prev_quorum.val.kind = "Anchoring" ->
                              IF prev_quorum.val.out # actual_addr THEN "yes" ELSE "no"
                        [] OTHER -> "panic"
                 ELSE "yes"
         IN IF is_recovering = "panic" THEN Panic
            ELSE IF is_recovering = "yes" THEN Recovering(previous_cfg, actual)
            ELSE Anchoring(actual)

\* A classification that never waits for the transition transaction.
state_in_transition_no_wait(actual, following, actual_lect, relay) ==
    IF actual_lect.kind = "Other" THEN {Panic} ELSE {Transition(actual, following)}

\* A following configuration with another address is pending.
\* debug_assert_eq!(&lect, actual.funding_tx()) aborts in a build with debug
\* assertions and is absent from a release build.
state_in_transition(actual, following, actual_lect, relay) ==
    CASE actual_lect.kind = "Anchoring" ->
            IF actual_lect.out = cfg_address(following)
            THEN IF relay.confirmations = RelayError THEN {Err}
                 ELSE {Waiting(actual_lect, relay.confirmations)}
            ELSE {Transition(actual, following)}
      [] actual_lect.kind = "Funding" ->
            IF actual_lect # actual.funding_tx
            THEN {Panic, Transition(actual, following)}
            ELSE {Transition(actual, following)}
      [] OTHER -> {Panic}

\* A classification that hands a lect of no known kind on as the Broken state.
state_on_actual_address_broken(actual, actual_addr, actual_lect, relay) ==
    IF actual_lect.kind \in {"Funding", "Anchoring"}
    THEN IF actual_lect.out = actual_addr THEN Anchoring(actual)
         ELSE Recovering(previous_cfg, actual)
    ELSE [kind |-> "Broken"]

\* No address change is pending.
state_on_actual_address(actual, actual_addr, actual_lect, relay) ==
    CASE actual_lect.kind = "Funding" ->
            IF actual_lect.out = actual_addr
            THEN IF relay.confirmations = RelayError THEN Err
                 ELSE IF ~is_enough_confirmations(actual, relay.confirmations)
                 THEN Waiting(actual_lect, relay.confirmations)
                 ELSE Anchoring(actual)
            ELSE Recovering(previous_cfg, actual)
      [] actual_lect.kind = "Anchoring" ->
            IF actual_lect.out # actual_addr THEN Recovering(previous_cfg, actual)
            ELSE LET is_transition == actual_lect_is_transition(actual_lect)
                 IN IF is_transition = "panic" THEN Panic
                    ELSE IF is_transition = "yes"
                    THEN IF relay.confirmations = RelayError THEN Err
                         ELSE IF ~is_enough_confirmations(actual, relay.confirmations)
                         THEN Waiting(actual_lect, relay.confirmations)
                         ELSE Anchoring(actual)
                    ELSE Anchoring(actual)
      [] OTHER -> Panic

\* The results current_state can give for the node with the given set of
\* known addresses and the given answers of the relay: the state (or Err, or
\* Panic for an abort) and the known addresses afterwards.
current_state(node, known, relay) ==
    LET actual == actual_cfg
        actual_addr == cfg_address(actual)
        imported == import_address(known, actual_addr, relay.watch_actual)
        vid == validator_id(node, actual)
    IN IF ~imported.ok THEN {[state |-> Err, known |-> imported.known]}
       ELSE IF ~vid.some THEN {[state |-> Auditing(actual), known |-> imported.known]}
       ELSE LET key == anchoring_key(actual, vid)
                own == lect(lects, key)
            IN IF ~own.some
               THEN IF previous_cfg = NoCfg
                    THEN {[state |-> Panic, known |-> imported.known]}
                    ELSE {[state |-> state_without_lect(actual, actual_addr, q),
                           known |-> imported.known] : q \in collect_lects(previous_cfg)}
               ELSE LET result == following_config_is_transition(actual_addr)
                    IN IF result.some
                       THEN LET imported2 == import_address(imported.known,
                                                 cfg_address(result.val), relay.watch_following)
                            IN IF ~imported2.ok
                               THEN {[state |-> Err, known |-> imported2.known]}
                               ELSE {[state |-> st, known |-> imported2.known] :
                                        st \in state_in_transition(actual, result.val,
                                                                   own.val, relay)}
                       ELSE {[state |-> state_on_actual_address(actual, actual_addr,
                                            own.val, relay),
                              known |-> imported.known]}

-----------------------------------------------------------------------------
(* Signature messages. *)

SigMsgs == [tx : SigTxs, validator : 0..1, input : 0..1, signature : {"s1", "s2"}]
Nids == {t.nid : t \in Txs}

-----------------------------------------------------------------------------
(* Initial state: an empty schema, no configuration yet. *)

NoCall == [op |-> "none"]
NoState == [kind |-> "none"]

InitTables ==
    /\ lects = [k \in Keys |-> <<>>]
    /\ lect_indexes = [k \in Keys |-> EmptyMap]
    /\ known_txs = EmptyMap
    /\ signatures = [n \in Nids |-> <<>>]
    /\ known_signatures = EmptyMap
    /\ genesis_cfg = NoCfg
    /\ previous_cfg = NoCfg
    /\ actual_cfg = NoCfg
    /\ following_cfg = NoCfg
    /\ cfg_changes = 0
    /\ known_addresses = {}
    /\ anchoring_state = NoState
    /\ updates = 0
    /\ height = 0
    /\ broadcast = <<>>
    /\ ops = 0
    /\ last = NoCall
    /\ lect_kind = NoCall
    /\ lect_check = NoCall
    /\ anchoring_transactions_chain = <<>>
    /\ relay_txs = {}
    /\ sync_task = NoCall
    /\ call = NoCall
    /\ error_log = <<>>
    /\ anchored_blocks = <<>>
    /\ lect_pool = [k \in Keys |-> {}]

\* handle_genesis_block: the genesis configuration seeds the lects.
Genesis ==
    /\ genesis_cfg = NoCfg
    /\ \E cfg \in GenesisConfigs :
        /\ SetSchema(create_genesis_config(SchemaNow, cfg))
        /\ genesis_cfg' = cfg
        /\ actual_cfg' = cfg
        /\ last' = [op |-> "create_genesis_config", cfg |-> cfg]
    /\ ops' = ops + 1
    /\ UNCHANGED <<previous_cfg, following_cfg, cfg_changes, handler_vars, updates>>
    /\ UNCHANGED task_vars

\* A call of add_lect on a fork.
AddLect ==
    /\ genesis_cfg # NoCfg
    /\ ops < MaxOps
    /\ \E k \in Keys, tx \in LectTxs, h \in Hashes :
        /\ SetSchema(add_lect(SchemaNow, k, tx, h))
        /\ last' = [op |-> "add_lect", key |-> k, tx |-> tx, msg_hash |-> h]
    /\ ops' = ops + 1
    /\ UNCHANGED <<config_vars, handler_vars, updates>>
    /\ UNCHANGED task_vars

\* A call of add_known_signature on a fork.
AddKnownSignature ==
    /\ genesis_cfg # NoCfg
    /\ ops < MaxOps
    /\ \E msg \in SigMsgs :
        LET r == add_known_signature(SchemaNow, msg)
        IN /\ SetSchema(r.schema)
           /\ last' = [op |-> "add_known_signature", msg |-> msg, result |-> r.result]
    /\ ops' = ops + 1
    /\ UNCHANGED <<config_vars, handler_vars, updates>>
    /\ UNCHANGED task_vars

\* The schema on its own: one node, the write calls in any order.
SchemaInit == InitTables /\ me = "k1"

SchemaNext == Genesis \/ AddLect \/ AddKnownSignature

SchemaSpec == SchemaInit /\ [][SchemaNext]_vars

-----------------------------------------------------------------------------
(* The node: blocks, configurations, lect updates, the handler, the task. *)

Nodes == {"k1", "k4", "auditor"}

\* The node is between two callbacks: no state waits for its handler and no
\* message waits for the network.
Idle == anchoring_state = NoState /\ broadcast = <<>> /\ lect_kind = NoCall

Init == InitTables /\ me \in Nodes

\* The hash of a lect update message, which is made of the validator, the
\* transaction and the number of lects the validator had.
MsgHash(validator, tx, lects_count) == <<validator, tx.id, lects_count>>

\* A block executes a lect update of a validator of the actual configuration
\* that carries the current length of its lect list.
ExecuteLectUpdate ==
    /\ genesis_cfg # NoCfg
    /\ Idle
    /\ updates < MaxUpdates
    /\ updates' = updates + 1
    /\ \E v \in 0..(Len(actual_cfg.anchoring_keys) - 1), tx \in LectTxs :
        LET key == actual_cfg.anchoring_keys[v + 1]
            lects_count == Len(lects[key])
        IN SetSchema(add_lect(SchemaNow, key, tx, MsgHash(v, tx, lects_count)))
    /\ UNCHANGED <<config_vars, handler_vars, ops, last>>
    /\ UNCHANGED task_vars

\* The host blockchain accepts a following configuration.
ProposeConfig ==
    /\ genesis_cfg # NoCfg
    /\ Idle
    /\ following_cfg = NoCfg
    /\ cfg_changes < MaxCfgChanges
    /\ \E cfg \in Configs \ {actual_cfg} : following_cfg' = cfg
    /\ cfg_changes' = cfg_changes + 1
    /\ UNCHANGED <<genesis_cfg, previous_cfg, actual_cfg, schema_vars, updates,
                   handler_vars, ops, last>>
    /\ UNCHANGED task_vars

\* The following configuration becomes the actual one.
ActivateConfig ==
    /\ following_cfg # NoCfg
    /\ Idle
    /\ previous_cfg' = actual_cfg
    /\ actual_cfg' = following_cfg
    /\ following_cfg' = NoCfg
    /\ UNCHANGED <<genesis_cfg, cfg_changes, schema_vars, updates,
                   handler_vars, ops, last>>
    /\ UNCHANGED task_vars

CommitBlock ==
    /\ genesis_cfg # NoCfg
    /\ Idle
    /\ height < MaxHeight
    /\ height' = height + 1
    /\ UNCHANGED <<schema_vars, updates, config_vars, me, known_addresses,
                   anchoring_state, broadcast, ops, last>>
    /\ UNCHANGED task_vars

\* after_commit asks current_state for the state of the node. An abort
\* (Panic) ends the node.
CurrentState ==
    /\ genesis_cfg # NoCfg
    /\ Idle
    /\ \E relay \in RelayAnswers :
        \E r \in current_state(me, known_addresses, relay) :
            /\ anchoring_state' = r.state
            /\ known_addresses' = r.known
    /\ UNCHANGED <<schema_vars, updates, config_vars, me, height, broadcast, ops, last>>
    /\ UNCHANGED task_vars

\* after_commit hands the state to its handler, or returns the error, and
\* the callback is over.
HandleState ==
    /\ anchoring_state.kind \notin {"none", "Panic"}
    /\ anchoring_state' = NoState
    /\ UNCHANGED <<schema_vars, updates, config_vars, me, known_addresses, height,
                   broadcast, ops, last>>
    /\ UNCHANGED task_vars

\* The signature transactions handle_as_validator sends for the inputs
\* first..(n-1) of the proposal that the validator has not signed yet.
RECURSIVE signature_txs(_, _, _, _)
signature_txs(vid, first, n, signed) ==
    IF first >= n THEN <<>>
    ELSE IF first \in signed THEN signature_txs(vid, first + 1, n, signed)
    ELSE <<[validator |-> vid, input |-> first]>> \o signature_txs(vid, first + 1, n, signed)

handle_as_validator(vid, anchoring_height, proposal, signed) ==
    IF height < anchoring_height THEN <<>>
    ELSE IF ~proposal.some THEN <<>>
    ELSE signature_txs(vid, 0, proposal.val, signed)

handle_as_auditor == <<>>

\* A run in which an auditor is handled as a validator with id 0.
run_signing_auditor(node, has_privkey, anchoring_height, proposal, signed) ==
    handle_as_validator(0, anchoring_height, proposal, signed)

\* UpdateAnchoringChainTask::run: what the node broadcasts.
run(node, has_privkey, anchoring_height, proposal, signed) ==
    LET vid == validator_id(node, actual_cfg)
    IN IF vid.some
       THEN IF ~has_privkey THEN <<>>
            ELSE handle_as_validator(vid.val, anchoring_height, proposal, signed)
       ELSE handle_as_auditor

\* The proposals the task can find and the inputs the node has signed.
Proposals ==
    {[proposal |-> None, signed |-> {}]} \cup
    {[proposal |-> Some(MaxInputs), signed |-> sg] : sg \in SUBSET (0..(MaxInputs - 1))}

RunUpdateChain ==
    /\ genesis_cfg # NoCfg
    /\ Idle
    /\ \E has_privkey \in BOOLEAN, anchoring_height \in {0, MaxHeight},
          p \in Proposals :
        broadcast' = run(me, has_privkey, anchoring_height, p.proposal, p.signed)
    /\ UNCHANGED <<schema_vars, updates, config_vars, me, known_addresses,
                   anchoring_state, height, ops, last>>
    /\ UNCHANGED task_vars

\* The network takes the messages of the run.
SendBroadcast ==
    /\ broadcast # <<>>
    /\ broadcast' = <<>>
    /\ UNCHANGED <<schema_vars, updates, config_vars, me, known_addresses,
                   anchoring_state, height, ops, last>>
    /\ UNCHANGED task_vars

Next ==
    \/ Genesis
    \/ ExecuteLectUpdate
    \/ ProposeConfig
    \/ ActivateConfig
    \/ CommitBlock
    \/ CurrentState
    \/ HandleState
    \/ RunUpdateChain
    \/ SendBroadcast

Spec == Init /\ [][Next]_vars

-----------------------------------------------------------------------------
(* The quorum lect as the handler sees it. *)

LectKindNone == [kind |-> "None"]
LectKind(tx) == [kind |-> tx.kind, tx |-> tx]
IncorrectLect(tx) == [kind |-> "Err", error |-> "IncorrectLect", tx |-> tx]

\* AnchoringHandler::collect_lects: the results for the quorum results the
\* schema can give.
handler_collect_lects ==
    {IF ~q.some THEN LectKindNone
     ELSE IF q.val.kind \in {"Anchoring", "Funding"} THEN LectKind(q.val)
     ELSE IncorrectLect(q.val) : q \in collect_lects(actual_cfg)}

\* AnchoringHandler::collect_lects_for_validator: the validator's own lect
\* when enough keys of anchoring_cfg report it, validators_count being the
\* number of validators of the host blockchain (a u8 in majority_count).
collect_lects_for_validator(key, anchoring_cfg, validators_count) ==
    LET our_lect == lect(lects, key)
        count == Cardinality({i \in 1..Len(anchoring_cfg.anchoring_keys) :
                                 lect(lects, anchoring_cfg.anchoring_keys[i]) = our_lect})
    IN IF ~our_lect.some THEN LectKindNone
       ELSE IF count >= majority_count(validators_count % 256)
       THEN IF our_lect.val.kind \in {"Anchoring", "Funding"} THEN LectKind(our_lect.val)
            ELSE Panic
       ELSE LectKindNone

\* A block executes the lect updates of all validators of the actual
\* configuration, which report the same transaction.
RECURSIVE block_lects(_, _, _)
block_lects(s, tx, n) ==
    IF n = 0 THEN s
    ELSE LET before == block_lects(s, tx, n - 1)
             key == actual_cfg.anchoring_keys[n]
         IN add_lect(before, key, tx, MsgHash(n - 1, tx, Len(before.lects[key])))

ExecuteLectBlock ==
    /\ genesis_cfg # NoCfg
    /\ Idle
    /\ updates < MaxUpdates
    /\ updates' = updates + 1
    /\ \E tx \in LectTxs :
        SetSchema(block_lects(SchemaNow, tx, Len(actual_cfg.anchoring_keys)))
    /\ UNCHANGED <<config_vars, handler_vars, ops, last>>
    /\ UNCHANGED task_vars

\* A handler of a state asks for the quorum lect of the actual configuration.
HandlerCollectLects ==
    /\ genesis_cfg # NoCfg
    /\ Idle
    /\ \E r \in handler_collect_lects :
        lect_kind' = [op |-> "collect_lects", result |-> r]
    /\ UNCHANGED <<schema_vars, updates, config_vars, handler_vars, ops, last>>
    /\ UNCHANGED more_vars
    /\ UNCHANGED <<lect_check, sync_vars, call_vars>>

\* A handler of a state asks whether the lect of its validator has a quorum
\* in the actual or in the following configuration.
HandlerCollectLectsForValidator ==
    /\ genesis_cfg # NoCfg
    /\ Idle
    /\ validator_id(me, actual_cfg).some
    /\ \E cfg \in {actual_cfg, following_cfg} \ {NoCfg} :
        lect_kind' = [op |-> "collect_lects_for_validator", cfg |-> cfg,
                      result |-> collect_lects_for_validator(
                                     anchoring_key(actual_cfg, validator_id(me, actual_cfg)),
                                     cfg, Len(actual_cfg.anchoring_keys))]
    /\ UNCHANGED <<schema_vars, updates, config_vars, handler_vars, ops, last>>
    /\ UNCHANGED more_vars
    /\ UNCHANGED <<lect_check, sync_vars, call_vars>>

\* The handler goes on with the answer, or the commit ends with the error.
ReturnLectKind ==
    /\ lect_kind # NoCall
    /\ lect_kind.result.kind # "Panic"
    /\ lect_kind' = NoCall
    /\ UNCHANGED <<schema_vars, updates, config_vars, handler_vars, ops, last>>
    /\ UNCHANGED more_vars
    /\ UNCHANGED <<lect_check, sync_vars, call_vars>>

LectNext ==
    \/ Genesis
    \/ ExecuteLectBlock
    \/ ProposeConfig
    \/ ActivateConfig
    \/ CurrentState
    \/ HandleState
    \/ HandlerCollectLects
    \/ HandlerCollectLectsForValidator
    \/ ReturnLectKind

LectSpec == Init /\ [][LectNext]_vars

-----------------------------------------------------------------------------
(* The validator keeps its own lect up to date from the relay. *)

\* A transaction_is_lect that accepts only what the validator has recorded.
transaction_is_lect_known(tx, key, relay_prev) ==
    find_lect_position(lect_indexes, key, tx.id).some

\* The configurations anchoring_config_by_height can give for the height
\* of an anchoring transaction.
ConfigsByHeight == {genesis_cfg, previous_cfg, actual_cfg} \ {NoCfg}

\* What the relay knows of a transaction: its kind and the configuration
\* that was the actual one at its height (for a funding transaction the
\* height is zero).
PrevLect(kind, cfg) == [kind |-> kind, cfg |-> cfg]

\* The answers of the relay to get_transaction for the transaction that tx
\* spends: none, or that transaction.
PrevAnswers(tx) ==
    {None} \cup
    UNION {{Some(PrevLect(prev.kind, cfg)) :
                cfg \in IF prev.kind = "Funding" THEN {genesis_cfg} ELSE ConfigsByHeight} :
           prev \in {t \in Txs : t.id = tx.prev}}

\* The answers for the transaction of a listing.
ListedPrevAnswers(listing) ==
    IF listing = RelayError THEN {None}
    ELSE IF listing.some THEN PrevAnswers(listing.val) ELSE {None}

\* A transaction_is_lect that takes an anchoring transaction as soon as the
\* relay knows the transaction it spends.
transaction_is_lect_on_relay(tx, key, relay_prev) ==
    IF find_lect_position(lect_indexes, key, tx.id).some THEN TRUE
    ELSE CASE tx.kind = "Funding" -> genesis_cfg.funding_tx = tx
           [] tx.kind = "Anchoring" ->
                find_lect_position(lect_indexes, key, tx.prev).some \/ relay_prev.some
           [] OTHER -> FALSE

\* transaction_is_lect for the validator with the given key; relay_prev is
\* the answer of the relay for the transaction that an anchoring transaction
\* spends.
transaction_is_lect(tx, key, relay_prev) ==
    IF find_lect_position(lect_indexes, key, tx.id).some THEN TRUE
    ELSE CASE tx.kind = "Funding" -> genesis_cfg.funding_tx = tx
           [] tx.kind = "Anchoring" ->
                IF find_lect_position(lect_indexes, key, tx.prev).some THEN TRUE
                ELSE IF ~relay_prev.some THEN FALSE
                ELSE IF relay_prev.val.kind = "Other" THEN FALSE
                ELSE LET cfg == relay_prev.val.cfg
                     IN Cardinality({i \in 1..Len(cfg.anchoring_keys) :
                            find_lect_position(lect_indexes, cfg.anchoring_keys[i],
                                               tx.prev).some})
                          >= cfg_majority_count(cfg)
           [] OTHER -> FALSE

\* update_our_lect with the unspent transaction the relay lists for the
\* address (None when it lists none): the schema after the lect update that
\* the validator sends has been executed.
update_our_lect(s, key, unspent, relay_prev) ==
    IF unspent.some /\ transaction_is_lect(unspent.val, key, relay_prev)
       /\ lect(s.lects, key) # unspent
    THEN LET vid == validator_id(key, actual_cfg).val
         IN add_lect(s, key, unspent.val, MsgHash(vid, unspent.val, Len(s.lects[key])))
    ELSE s

\* The genesis block of a blockchain with four validators.
GenesisFour ==
    /\ genesis_cfg = NoCfg
    /\ SetSchema(create_genesis_config(SchemaNow, Cfg4F))
    /\ genesis_cfg' = Cfg4F
    /\ actual_cfg' = Cfg4F
    /\ last' = [op |-> "create_genesis_config", cfg |-> Cfg4F]
    /\ ops' = ops + 1
    /\ UNCHANGED <<previous_cfg, following_cfg, cfg_changes, handler_vars, updates>>
    /\ UNCHANGED task_vars

\* The handlers look for a new lect at every height that is a multiple of
\* this number.
check_lect_frequency == 2

\* The listing of unspent transactions at a height, whether it failed, and
\* the height of a later commit whose handler left the listing out.
LectCheck(h, failed, result) ==
    [op |-> "update_our_lect", height |-> h, failed |-> failed, result |-> result,
     skipped |-> FALSE, skipped_at |-> h]

\* after_commit hands Transition, Recovering or Anchoring to its handler. At
\* a height that is a multiple of check_lect_frequency the handler first
\* updates the lect of the validator: in Transition with the address of the
\* configuration to come, otherwise with the actual address. The listing of
\* the unspent transactions may fail, which ends the handler with the error.
HandleStateUpdatingLect ==
    /\ anchoring_state.kind \in {"Transition", "Recovering", "Anchoring"}
    /\ updates < MaxUpdates
    /\ LET addr == IF anchoring_state.kind = "Transition"
                   THEN cfg_address(anchoring_state.to)
                   ELSE cfg_address(actual_cfg)
           key == anchoring_key(actual_cfg, validator_id(me, actual_cfg))
       IN IF height % check_lect_frequency = 0
          THEN \E listing_fails \in BOOLEAN :
                 IF listing_fails
                 THEN /\ UNCHANGED <<schema_vars, updates>>
                      /\ lect_check' = LectCheck(height, TRUE, "Err")
                 ELSE \E unspent \in {None} \cup {Some(tx) : tx \in {t \in Txs : t.out = addr}} :
                      \E relay_prev \in ListedPrevAnswers(unspent) :
                        /\ SetSchema(update_our_lect(SchemaNow, key, unspent, relay_prev))
                        /\ updates' = updates + 1
                        /\ lect_check' = LectCheck(height, FALSE, "Ok")
          ELSE /\ UNCHANGED <<schema_vars, updates>>
               /\ lect_check' = IF lect_check # NoCall /\ lect_check.failed
                                THEN [lect_check EXCEPT !.skipped = TRUE, !.skipped_at = height]
                                ELSE lect_check
    /\ anchoring_state' = NoState
    /\ UNCHANGED <<config_vars, me, known_addresses, height, broadcast, ops, last>>
    /\ UNCHANGED <<lect_kind, sync_vars, call_vars>>
    /\ UNCHANGED more_vars

ExcludeNext ==
    \/ GenesisFour
    \/ ProposeConfig
    \/ ActivateConfig
    \/ CurrentState
    \/ HandleState
    \/ HandleStateUpdatingLect
    \/ CommitBlock

ExcludeSpec == Init /\ [][ExcludeNext]_vars

-----------------------------------------------------------------------------
(* Synchronisation of the anchoring chain with the Bitcoin relay. *)

\* The id of the funding transaction that the first chain transaction spends.
FundingId == 0

\* The i-th transaction of the anchoring chain spends the one before it.
ChainTx(i) == [id |-> i, prev |-> i - 1]

\* A sync interval that adds 1 instead of taking the maximum with 1.
sync_interval_plus(anchoring_interval) == anchoring_interval \div 2 + 1

\* cmp::max(1, anchoring_interval / 2)
sync_interval(anchoring_interval) ==
    IF anchoring_interval \div 2 >= 1 THEN anchoring_interval \div 2 ELSE 1

\* A walk that looks only at the transaction, not at the one it spends.
RECURSIVE first_uncommitted_unchecked(_, _, _)
first_uncommitted_unchecked(chain, known, len) ==
    IF len = 0 THEN None
    ELSE IF chain[len].id \notin known THEN Some(len - 1)
    ELSE first_uncommitted_unchecked(chain, known, len - 1)

\* find_index_of_first_uncommitted_transaction, walking the first len
\* transactions backward; the index counts from 0.
RECURSIVE find_index_of_first_uncommitted_transaction(_, _, _)
find_index_of_first_uncommitted_transaction(chain, known, len) ==
    IF len = 0 THEN None
    ELSE IF chain[len].prev \in known /\ chain[len].id \notin known
    THEN Some(len - 1)
    ELSE find_index_of_first_uncommitted_transaction(chain, known, len - 1)

\* The number of transaction_info calls of that walk.
RECURSIVE walk_calls(_, _, _)
walk_calls(chain, known, len) ==
    IF len = 0 THEN 0
    ELSE IF chain[len].prev \in known
    THEN IF chain[len].id \notin known THEN 2
         ELSE 2 + walk_calls(chain, known, len - 1)
    ELSE 1 + walk_calls(chain, known, len - 1)

\* No task is in the middle of its run.
SyncIdle == IF sync_task = NoCall THEN TRUE ELSE sync_task.pc = "done"

\* The task: where it is (pc), the height and anchoring interval it runs
\* with, what the relay knew during the walk (seen), the start index, the
\* index to send next, the ids sent, the number of relay calls, whether a
\* relay call failed, whether the relay rejected a transaction it already
\* had, and the result.
SyncTask(pc, h, anchoring_interval, seen, start, next, sent, calls, failed, rejected, result) ==
    [op |-> "sync", pc |-> pc, height |-> h, anchoring_interval |-> anchoring_interval,
     sync_interval |-> sync_interval(anchoring_interval), seen |-> seen,
     start |-> start, next |-> next, sent |-> sent, calls |-> calls,
     failed |-> failed, rejected |-> rejected, result |-> result]

\* A transaction is finalized and joins the anchoring chain, in a block
\* after the one whose task has returned.
AppendAnchoringTx ==
    /\ SyncIdle
    /\ Len(anchoring_transactions_chain) < MaxChain
    /\ anchoring_transactions_chain' =
           Append(anchoring_transactions_chain,
                  ChainTx(Len(anchoring_transactions_chain) + 1))
    /\ sync_task' = NoCall
    /\ UNCHANGED <<relay_txs, lect_vars, call_vars>>
    /\ UNCHANGED <<schema_vars, updates, config_vars, handler_vars, ops, last>>
    /\ UNCHANGED more_vars

\* The relay accepts a transaction from somewhere else: the funding
\* transaction, or a chain transaction that another node sends. It accepts
\* a transaction only when it knows the one that is spent.
RelayAccepts ==
    /\ \E id \in {FundingId} \cup {anchoring_transactions_chain[i].id :
                                    i \in 1..Len(anchoring_transactions_chain)} :
        /\ id \notin relay_txs
        /\ id = FundingId \/ (id - 1) \in relay_txs
        /\ relay_txs' = relay_txs \cup {id}
    /\ UNCHANGED <<anchoring_transactions_chain, sync_task, lect_vars, call_vars>>
    /\ UNCHANGED <<schema_vars, updates, config_vars, handler_vars, ops, last>>
    /\ UNCHANGED more_vars

\* SyncWithBtcRelayTask::run up to its first send_transaction: the test of
\* the height and the backward walk, in which a transaction_info call may
\* fail. Every commit starts a new task.
SyncRun ==
    /\ SyncIdle
    /\ \E h \in 0..MaxSyncHeight, anchoring_interval \in 0..MaxInterval, fails \in BOOLEAN :
        LET chain == anchoring_transactions_chain
            len   == Len(chain)
            start == find_index_of_first_uncommitted_transaction(chain, relay_txs, len)
            calls == walk_calls(chain, relay_txs, len)
        IN sync_task' =
             IF h % sync_interval(anchoring_interval) # 0
             THEN SyncTask("done", h, anchoring_interval, relay_txs, None, 0, <<>>, 0,
                           FALSE, FALSE, "Ok")
             ELSE IF fails /\ calls > 0
             THEN SyncTask("done", h, anchoring_interval, relay_txs, None, 0, <<>>, calls,
                           TRUE, FALSE, "Err")
             ELSE IF ~start.some
             THEN SyncTask("done", h, anchoring_interval, relay_txs, None, 0, <<>>, calls,
                           FALSE, FALSE, "Ok")
             ELSE SyncTask("sending", h, anchoring_interval, relay_txs, start, start.val,
                           <<>>, calls, FALSE, FALSE, "none")
    /\ UNCHANGED <<anchoring_transactions_chain, relay_txs, lect_vars, call_vars>>
    /\ UNCHANGED <<schema_vars, updates, config_vars, handler_vars, ops, last>>
    /\ UNCHANGED more_vars

\* One turn of the loop of run: send_transaction for the next transaction of
\* the chain. The relay rejects a transaction that it already has or whose
\* spent transaction it does not know, and the call may fail; every error
\* ends run with that error. After the last transaction run returns Ok.
SyncSend ==
    /\ sync_task # NoCall
    /\ sync_task.pc = "sending"
    /\ LET t  == sync_task
           tx == anchoring_transactions_chain[t.next + 1]
           last_one == t.next + 1 = Len(anchoring_transactions_chain)
       IN IF tx.id \in relay_txs
          THEN /\ sync_task' = [t EXCEPT !.pc = "done", !.calls = @ + 1, !.failed = TRUE,
                                         !.rejected = TRUE, !.result = "Err"]
               /\ UNCHANGED relay_txs
          ELSE \E accepted \in BOOLEAN :
                 IF accepted /\ tx.prev \in relay_txs
                 THEN /\ relay_txs' = relay_txs \cup {tx.id}
                      /\ sync_task' = [t EXCEPT !.pc = IF last_one THEN "done" ELSE "sending",
                                                !.next = @ + 1,
                                                !.sent = Append(@, tx.id),
                                                !.calls = @ + 1,
                                                !.result = IF last_one THEN "Ok" ELSE "none"]
                 ELSE /\ sync_task' = [t EXCEPT !.pc = "done", !.calls = @ + 1,
                                                !.failed = TRUE, !.result = "Err"]
                      /\ UNCHANGED relay_txs
    /\ UNCHANGED <<anchoring_transactions_chain, lect_vars, call_vars>>
    /\ UNCHANGED <<schema_vars, updates, config_vars, handler_vars, ops, last>>
    /\ UNCHANGED more_vars

SyncNext ==
    \/ AppendAnchoringTx
    \/ RelayAccepts
    \/ SyncRun
    \/ SyncSend

SyncSpec == Init /\ [][SyncNext]_vars

-----------------------------------------------------------------------------
(* The commit callback of the service. *)

\* The errors of the service: of the storage, of the Bitcoin RPC, of
\* input and output, and those of the handler.
ServiceErrors ==
    {"Storage", "Rpc", "Io", "InsufficientFunds", "IncorrectLect", "LectNotFound"}

Ok == [kind |-> "Ok"]
ErrOf(e) == [kind |-> "Err", error |-> e]

\* What AnchoringHandler::handle_commit can return.
HandlerResults == {Ok} \cup {ErrOf(e) : e \in ServiceErrors}

\* A callback that hands every error to the host.
service_handle_commit_strict(handler_result) == handler_result

\* AnchoringService::handle_commit: the result given to the host.
service_handle_commit(handler_result) ==
    IF handler_result.kind = "Err" /\ handler_result.error = "Storage"
    THEN ErrOf("Storage")
    ELSE Ok

\* A callback that logs what it hands to the host and nothing else.
service_logs_inverted(handler_result) ==
    handler_result.kind = "Err" /\ handler_result.error = "Storage"

\* error!("An error occured: {:?}", e)
service_logs(handler_result) ==
    handler_result.kind = "Err" /\ handler_result.error # "Storage"

\* The host calls the commit callback of the service.
ServiceHandleCommit ==
    /\ Len(error_log) < MaxLog
    /\ \E handler_result \in HandlerResults :
        /\ call' = [op |-> "handle_commit", handler |-> handler_result,
                    result |-> service_handle_commit(handler_result)]
        /\ error_log' = IF service_logs(handler_result)
                        THEN Append(error_log, handler_result.error)
                        ELSE error_log
    /\ UNCHANGED <<lect_vars, sync_vars>>
    /\ UNCHANGED <<schema_vars, updates, config_vars, handler_vars, ops, last>>
    /\ UNCHANGED more_vars

CommitNext == ServiceHandleCommit

CommitSpec == Init /\ [][CommitNext]_vars

-----------------------------------------------------------------------------
(* The majority count as a function of the number of validators. *)

\* The largest value of the argument type u8.
U8Max == 255

\* What majority_count gives in the two builds: with overflow checks the
\* multiplication by 2 aborts when it leaves u8, without them it wraps.
majority_count_outcomes(cnt) ==
    {[build |-> "release", kind |-> "value", val |-> majority_count(cnt)]}
    \cup {IF cnt * 2 > U8Max
          THEN [build |-> "debug", kind |-> "panic", val |-> 0]
          ELSE [build |-> "debug", kind |-> "value", val |-> majority_count(cnt)]}

\* One call of majority_count.
MajorityCount ==
    /\ call = NoCall
    /\ \E cnt \in 0..U8Max :
        \E outcome \in majority_count_outcomes(cnt) :
            call' = [op |-> "majority_count", cnt |-> cnt, outcome |-> outcome]
    /\ UNCHANGED <<lect_vars, sync_vars, error_log>>
    /\ UNCHANGED <<schema_vars, updates, config_vars, handler_vars, ops, last>>
    /\ UNCHANGED more_vars

MajorityNext == MajorityCount

MajoritySpec == Init /\ [][MajorityNext]_vars

-----------------------------------------------------------------------------
(* Finalizing a transaction with the signatures of the validators. *)

\* The elements of a set of numbers in ascending order.
RECURSIVE ascending(_)
ascending(S) ==
    IF S = {} THEN <<>>
    ELSE LET m == CHOOSE x \in S : \A y \in S : x <= y
         IN <<m>> \o ascending(S \ {m})

\* The signature of a validator for an input.
Signature(validator, input) == [validator |-> validator, input |-> input]

\* collect_signatures: for every input the first majority_count signatures
\* in the order of the validator ids, or nothing when an input has fewer.
collect_signatures(cfg, n_inputs, signs) ==
    LET majority == cfg_majority_count(cfg)
    IN IF \E input \in 0..(n_inputs - 1) : Cardinality(signs[input]) < majority
       THEN None
       ELSE Some([input \in 0..(n_inputs - 1) |->
                     [i \in 1..majority |-> Signature(ascending(signs[input])[i], input)]])

\* A finalization that embeds what it is given when the collection has no
\* result.
finalize_tx_lenient(cfg, n_inputs, signs) ==
    LET collected == collect_signatures(cfg, n_inputs, signs)
    IN [kind |-> "Ok",
        embedded |-> IF collected.some THEN collected.val
                     ELSE [input \in 0..(n_inputs - 1) |->
                              [i \in 1..Cardinality(signs[input]) |->
                                  Signature(ascending(signs[input])[i], input)]]]

\* finalize_tx: collect_signatures(..).unwrap(), then the signatures are
\* embedded in the transaction.
finalize_tx(cfg, n_inputs, signs) ==
    LET collected == collect_signatures(cfg, n_inputs, signs)
    IN IF collected.some
       THEN [kind |-> "Ok", embedded |-> collected.val]
       ELSE [kind |-> "Panic", embedded |-> <<>>]

\* make_signatures: the signers are the first majority_count keys of a
\* shuffle; every input gets their signatures in the order of the ids.
make_signatures(n_keys, n_inputs, signers) ==
    [input \in 0..(n_inputs - 1) |-> signers]

\* A transaction is finalized with the signatures that are at hand.
FinalizeTx ==
    /\ call = NoCall
    /\ \E cfg \in Configs, n_inputs \in 1..MaxInputs :
        \E signs \in [0..(n_inputs - 1) -> SUBSET (0..(Len(cfg.anchoring_keys) - 1))] :
            call' = [op |-> "finalize_tx", cfg |-> cfg, n_inputs |-> n_inputs,
                     signs |-> signs, result |-> finalize_tx(cfg, n_inputs, signs)]
    /\ UNCHANGED <<lect_vars, sync_vars, error_log>>
    /\ UNCHANGED <<schema_vars, updates, config_vars, handler_vars, ops, last>>
    /\ UNCHANGED more_vars

\* A transaction is finalized with the signatures that make_signatures
\* gives for a shuffle of the keys.
FinalizeMadeSignatures ==
    /\ call = NoCall
    /\ \E cfg \in Configs, n_inputs \in 1..MaxInputs :
        LET n_keys == Len(cfg.anchoring_keys)
            majority == ((n_keys * 2) % (U8Max + 1)) \div 3 + 1
        IN \E signers \in {S \in SUBSET (0..(n_keys - 1)) : Cardinality(S) = majority} :
            LET signs == make_signatures(n_keys, n_inputs, signers)
            IN call' = [op |-> "make_signatures", cfg |-> cfg, n_inputs |-> n_inputs,
                        signs |-> signs, result |-> finalize_tx(cfg, n_inputs, signs)]
    /\ UNCHANGED <<lect_vars, sync_vars, error_log>>
    /\ UNCHANGED <<schema_vars, updates, config_vars, handler_vars, ops, last>>
    /\ UNCHANGED more_vars

FinalizeNext ==
    \/ FinalizeTx
    \/ FinalizeMadeSignatures

FinalizeSpec == Init /\ [][FinalizeNext]_vars

-----------------------------------------------------------------------------
(* The builder of anchoring transactions. *)

RECURSIVE sum(_)
sum(values) == IF values = <<>> THEN 0 ELSE values[1] + sum(Tail(values))

\* The sequences of at most n values.
RECURSIVE ValueSeqs(_)
ValueSeqs(n) ==
    IF n = 0 THEN {<<>>}
    ELSE ValueSeqs(n - 1)
         \cup {Append(values, v) : values \in {q \in ValueSeqs(n - 1) : Len(q) = n - 1},
                                   v \in 0..MaxValue}

\* TransactionBuilder::into_transaction: the previous output and the
\* funding outputs are the inputs, the output carries what the fee leaves.
into_transaction(prev_output_value, funding_values, fee) ==
    LET total_funds == prev_output_value + sum(funding_values)
    IN IF total_funds < fee
       THEN ErrOf("InsufficientFunds")
       ELSE [kind |-> "Ok", inputs |-> 1 + Len(funding_values), amount |-> total_funds - fee]

\* A call that leaves out the additional funds.
BuilderCall_no_funds(prev_output_value, funding_values, fee) ==
    [op |-> "into_transaction", prev_output_value |-> prev_output_value,
     funding_values |-> funding_values, fee |-> fee,
     result |-> into_transaction(prev_output_value, <<>>, fee)]

\* The builder as send_anchoring_tx uses it: the previous transaction, the
\* fee, and add_funds for every additional funding transaction.
BuilderCall(prev_output_value, funding_values, fee) ==
    [op |-> "into_transaction", prev_output_value |-> prev_output_value,
     funding_values |-> funding_values, fee |-> fee,
     result |-> into_transaction(prev_output_value, funding_values, fee)]

\* A transaction is built on a previous output with additional funds.
BuildTransaction ==
    /\ call = NoCall
    /\ \E prev_output_value \in 0..MaxValue, funding_values \in ValueSeqs(MaxFundings),
          fee \in 0..MaxValue :
        call' = BuilderCall(prev_output_value, funding_values, fee)
    /\ UNCHANGED <<lect_vars, sync_vars, error_log>>
    /\ UNCHANGED <<schema_vars, updates, config_vars, handler_vars, ops, last>>
    /\ UNCHANGED more_vars

\* send_anchoring_tx on the transaction built last, without additional
\* funds and with the same fee: the chain spends its funds down, and the
\* last call finds less than the fee.
SendAnchoringTx ==
    /\ call # NoCall
    /\ call.op = "into_transaction"
    /\ call.result.kind = "Ok"
    /\ call.fee > 0
    /\ call' = BuilderCall(call.result.amount, <<>>, call.fee)
    /\ UNCHANGED <<lect_vars, sync_vars, error_log>>
    /\ UNCHANGED <<schema_vars, updates, config_vars, handler_vars, ops, last>>
    /\ UNCHANGED more_vars

BuilderNext ==
    \/ BuildTransaction
    \/ SendAnchoringTx

BuilderSpec == Init /\ [][BuilderNext]_vars

-----------------------------------------------------------------------------
(* The state hash of the service. *)

\* The Merkle root of a list stands for its content: lists of different
\* content have different roots.
merkle_root(list) == [root_of |-> list]

\* A state hash made with the keys of the genesis configuration.
state_hash_genesis ==
    <<merkle_root(anchored_blocks)>>
    \o [i \in 1..Len(genesis_cfg.anchoring_keys) |-> merkle_root(lects[genesis_cfg.anchoring_keys[i]])]

\* AnchoringSchema::state_hash
state_hash ==
    <<merkle_root(anchored_blocks)>>
    \o [i \in 1..Len(actual_cfg.anchoring_keys) |-> merkle_root(lects[actual_cfg.anchoring_keys[i]])]

\* The hash of the next anchored block is added to the anchored blocks.
AnchorBlock ==
    /\ genesis_cfg # NoCfg
    /\ Len(anchored_blocks) < MaxAnchored
    /\ anchored_blocks' = Append(anchored_blocks, <<Len(anchored_blocks) + 1>>)
    /\ UNCHANGED lect_pool
    /\ UNCHANGED <<lect_vars, sync_vars, call_vars>>
    /\ UNCHANGED <<schema_vars, updates, config_vars, handler_vars, ops, last>>

\* The host asks the service for its state hash, once.
StateHash ==
    /\ call = NoCall
    /\ call' = [op |-> "state_hash", result |-> state_hash]
    /\ UNCHANGED <<lect_vars, sync_vars, error_log>>
    /\ UNCHANGED <<schema_vars, updates, config_vars, handler_vars, ops, last>>
    /\ UNCHANGED more_vars

StateHashNext ==
    \/ Genesis
    \/ ExecuteLectUpdate
    \/ ProposeConfig
    \/ ActivateConfig
    \/ AnchorBlock
    \/ StateHash

StateHashSpec == Init /\ [][StateHashNext]_vars

-----------------------------------------------------------------------------
(* The commit cycle of an auditing node. *)

\* HandlerError::IncorrectLect { reason, tx } and HandlerError::LectNotFound.
IncorrectLectError(reason, tx) ==
    [kind |-> "Err", error |-> "IncorrectLect", reason |-> reason, tx |-> tx]
LectNotFoundError(h) == [kind |-> "Err", error |-> "LectNotFound", height |-> h]

\* The check of a quorum lect that is a funding transaction: it must be
\* the funding transaction of the genesis configuration, and only then is
\* the relay asked for it (getrawtransaction).
check_funding_lect(tx, relay_has) ==
    IF tx # genesis_cfg.funding_tx
    THEN IncorrectLectError("Initial funding_tx from cfg is different than in lect", tx)
    ELSE IF ~relay_has
    THEN IncorrectLectError("Initial funding_tx not found in the bitcoin blockchain", tx)
    ELSE Ok

\* The check of a quorum lect that is an anchoring transaction.
check_anchoring_lect(tx, relay_has) ==
    IF ~relay_has
    THEN IncorrectLectError("Lect not found in the bitcoin blockchain", tx)
    ELSE Ok

\* handle_auditing_state: at the heights where lects are checked the
\* quorum lect is looked at; kind is a result of the handler's collect_lects.
handle_auditing_state(h, kind, relay_has) ==
    IF h % check_lect_frequency # 0 THEN Ok
    ELSE IF kind.kind = "Funding" THEN check_funding_lect(kind.tx, relay_has)
    ELSE IF kind.kind = "Anchoring" THEN check_anchoring_lect(kind.tx, relay_has)
    ELSE IF kind.kind = "None" THEN LectNotFoundError(h)
    ELSE IncorrectLectError("Incorrect lect transaction", kind.tx)

\* A block is committed and the commit callback of an auditing node runs
\* at the new height: the result of the handler goes through the service,
\* which logs an error that it does not hand to the host.
AuditCommit ==
    /\ genesis_cfg # NoCfg
    /\ me = "auditor"
    /\ height < MaxAuditHeight
    /\ height' = height + 1
    /\ \E kind \in handler_collect_lects, relay_has \in BOOLEAN :
        LET handler_result == handle_auditing_state(height + 1, kind, relay_has)
        IN /\ call' = [op |-> "handle_commit", lect |-> kind,
                       relay_has |-> relay_has, handler |-> handler_result,
                       result |-> service_handle_commit(handler_result)]
           /\ error_log' = IF service_logs(handler_result)
                           THEN Append(error_log, handler_result)
                           ELSE error_log
    /\ UNCHANGED <<lect_vars, sync_vars>>
    /\ UNCHANGED <<schema_vars, updates, config_vars, me, known_addresses,
                   anchoring_state, broadcast, ops, last>>
    /\ UNCHANGED more_vars

AuditNext ==
    \/ Genesis
    \/ ExecuteLectBlock
    \/ AuditCommit

AuditSpec == Init /\ [][AuditNext]_vars

-----------------------------------------------------------------------------
(* The validators follow the anchoring chain that the relay reports. *)

\* The anchoring chain on the address of the four keys: Tx3 spends the
\* funding transaction TxF2 and Tx5 spends Tx3.
Tx5 == [id |-> 9, nid |-> 9, kind |-> "Anchoring", out |-> Addr4, prev |-> 7, chain |-> FALSE]
AnchoringChain == <<TxF2, Tx3, Tx5>>

\* The relay knows the funding transaction and the chain transactions that
\* were sent to it.
relay_has(id) == id = TxF2.id \/ id \in relay_txs

\* unspent_transactions of the relay for the address: the transaction of
\* the chain that the relay has and that no transaction it has spends.
unspent_transactions(addr) ==
    {AnchoringChain[i] : i \in {j \in 1..Len(AnchoringChain) :
        /\ relay_has(AnchoringChain[j].id)
        /\ AnchoringChain[j].out = addr
        /\ \A n \in 1..Len(AnchoringChain) :
              relay_has(AnchoringChain[n].id) => AnchoringChain[n].prev # AnchoringChain[j].id}}

\* find_lect: a listed unspent transaction that transaction_is_lect accepts.
find_lect(key, addr) ==
    {tx \in unspent_transactions(addr) : transaction_is_lect(
        tx, key, IF relay_has(tx.prev)
                 THEN Some(PrevLect(IF tx.prev = TxF2.id THEN "Funding" ELSE "Anchoring",
                                    actual_cfg))
                 ELSE None)}

\* MsgAnchoringUpdateLatest of a validator.
LectMsg(tx, lects_count) == [tx |-> tx, lects_count |-> lects_count]

\* The validators that hold the quorum lect sign the next transaction of
\* the chain and one of them sends it to the relay.
SendNextAnchoringTx ==
    /\ genesis_cfg # NoCfg
    /\ \E i \in 1..(Len(AnchoringChain) - 1) :
        /\ unspent_transactions(cfg_address(actual_cfg)) = {AnchoringChain[i]}
        /\ collect_lects(actual_cfg) = {Some(AnchoringChain[i])}
        /\ relay_txs' = relay_txs \cup {AnchoringChain[i + 1].id}
    /\ UNCHANGED <<schema_vars, updates, config_vars, handler_vars, ops, last>>
    /\ UNCHANGED <<lect_vars, anchoring_transactions_chain, sync_task, call_vars>>
    /\ UNCHANGED more_vars

\* The commit cycle of a validator at a height where it checks its lect:
\* update_our_lect publishes a lect update when find_lect gives a
\* transaction other than the lect of the validator.
UpdateOurLect ==
    /\ genesis_cfg # NoCfg
    /\ \E key \in {actual_cfg.anchoring_keys[i] : i \in 1..Len(actual_cfg.anchoring_keys)} :
        \E tx \in find_lect(key, cfg_address(actual_cfg)) :
            /\ Some(tx) # lect(lects, key)
            /\ LectMsg(tx, Len(lects[key])) \notin lect_pool[key]
            /\ lect_pool' = [lect_pool EXCEPT
                                ![key] = @ \cup {LectMsg(tx, Len(lects[key]))}]
    /\ UNCHANGED <<schema_vars, updates, config_vars, handler_vars, ops, last>>
    /\ UNCHANGED <<lect_vars, sync_vars, call_vars, anchored_blocks>>

\* A block holds a published lect update: it is executed when it carries
\* the current length of the lect list of its validator, ignored otherwise.
CommitLectUpdate ==
    /\ \E key \in Keys : \E msg \in lect_pool[key] :
        /\ lect_pool' = [lect_pool EXCEPT ![key] = @ \ {msg}]
        /\ IF msg.lects_count = Len(lects[key])
           THEN SetSchema(add_lect(SchemaNow, key, msg.tx,
                     MsgHash(validator_id(key, actual_cfg).val, msg.tx, msg.lects_count)))
           ELSE UNCHANGED schema_vars
    /\ UNCHANGED <<updates, config_vars, handler_vars, ops, last>>
    /\ UNCHANGED <<lect_vars, sync_vars, call_vars, anchored_blocks>>

ConvergeNext ==
    \/ GenesisFour
    \/ SendNextAnchoringTx
    \/ UpdateOurLect
    \/ CommitLectUpdate

ConvergeSpec == Init /\ [][ConvergeNext]_vars

\* Every validator reaches the heights where it checks its lect, and every
\* published lect update gets into a block.
ConvergeFairness ==
    \A key \in Keys :
        /\ WF_vars(UpdateOurLect /\ lect_pool'[key] # lect_pool[key])
        /\ WF_vars(CommitLectUpdate /\ lect_pool'[key] # lect_pool[key])

ConvergeFairSpec == ConvergeSpec /\ WF_vars(GenesisFour) /\ ConvergeFairness

-----------------------------------------------------------------------------
(* collect_lects on a tie for the most votes. *)

\* A configuration of n keys, and lect lists in which the first a keys
\* report TxF, the last c keys report nothing and the others report Tx1.
NumberedCfg(n) == [anchoring_keys |-> [i \in 1..n |-> i], funding_tx |-> TxF,
                   utxo_confirmations |-> 2]
SplitLects(n, a, c) ==
    [key \in 1..n |->
        IF key <= a THEN <<[msg_hash |-> ZeroHash, tx |-> TxF]>>
        ELSE IF key <= n - c THEN <<[msg_hash |-> ZeroHash, tx |-> Tx1]>>
        ELSE <<>>]

\* collect_lects is called, once: results holds what it can return in a
\* build whose arithmetic wraps, one result for each iteration order of the
\* tally map; aborts tells whether majority_count overflows, which ends a
\* build with overflow checks.
CollectLectsOnSplit ==
    /\ call = NoCall
    /\ \E n \in 1..MaxKeys : \E c \in 0..MaxSilent : \E a \in 0..(n - c) :
        /\ c <= n
        /\ call' = [op |-> "collect_lects", n |-> n, a |-> a, b |-> n - c - a,
                    results |-> collect_lects_from(SplitLects(n, a, c), NumberedCfg(n)),
                    aborts |-> n * 2 > U8Max]
    /\ UNCHANGED <<lect_vars, sync_vars, error_log>>
    /\ UNCHANGED <<schema_vars, updates, config_vars, handler_vars, ops, last>>
    /\ UNCHANGED more_vars

TieNext == CollectLectsOnSplit

TieSpec == Init /\ [][TieNext]_vars

-----------------------------------------------------------------------------
(* The chain-update task with its result. *)

\* What a run of the task gives: Ok, Err or Panic (an abort), and the
\* signature transactions it has broadcast.
TaskOutcome(result, sent) == [result |-> result, broadcast |-> sent]

\* proposed_anchoring_transaction: no proposal, an error, or a proposal
\* with a number of inputs.
ProposalError == Some([ok |-> FALSE])
ProposalOf(n) == Some([ok |-> TRUE, inputs |-> n])
TaskProposals == {None, ProposalError} \cup {ProposalOf(n) : n \in 1..MaxInputs}

\* The input for which sign_input returns an error ("Err") or for which
\* verify_input(..).unwrap() aborts ("Panic"), if there is one.
SignFailures ==
    {None} \cup {Some([at |-> i, kind |-> k]) : i \in 0..(MaxInputs - 1), k \in {"Err", "Panic"}}

\* A loop that signs the inputs the validator has signed before as well.
RECURSIVE sign_inputs_again(_, _, _, _, _)
sign_inputs_again(vid, first, n, signed, fail) ==
    IF first >= n THEN TaskOutcome("Ok", <<>>)
    ELSE IF fail.some /\ fail.val.at = first THEN TaskOutcome(fail.val.kind, <<>>)
    ELSE LET rest == sign_inputs_again(vid, first + 1, n, signed, fail)
         IN [rest EXCEPT !.broadcast = <<[validator |-> vid, input |-> first]>> \o @]

\* The loop over the inputs first..(n-1) of the proposal: an input that the
\* schema records as signed by the validator is passed over, the others
\* are signed, verified and broadcast in turn.
RECURSIVE sign_inputs(_, _, _, _, _)
sign_inputs(vid, first, n, signed, fail) ==
    IF first >= n THEN TaskOutcome("Ok", <<>>)
    ELSE IF first \in signed THEN sign_inputs(vid, first + 1, n, signed, fail)
    ELSE IF fail.some /\ fail.val.at = first THEN TaskOutcome(fail.val.kind, <<>>)
    ELSE LET rest == sign_inputs(vid, first + 1, n, signed, fail)
         IN [rest EXCEPT !.broadcast = <<[validator |-> vid, input |-> first]>> \o @]

\* A validator that signs before the anchoring height is reached.
task_handle_as_validator_early(vid, h, anchoring_height, proposal, signed, fail) ==
    IF ~proposal.some THEN TaskOutcome("Ok", <<>>)
    ELSE IF ~proposal.val.ok THEN TaskOutcome("Err", <<>>)
    ELSE sign_inputs(vid, 0, proposal.val.inputs, signed, fail)

\* UpdateAnchoringChainTask::handle_as_validator with its result.
task_handle_as_validator(vid, h, anchoring_height, proposal, signed, fail) ==
    IF h < anchoring_height THEN TaskOutcome("Ok", <<>>)
    ELSE IF ~proposal.some THEN TaskOutcome("Ok", <<>>)
    ELSE IF ~proposal.val.ok THEN TaskOutcome("Err", <<>>)
    ELSE sign_inputs(vid, 0, proposal.val.inputs, signed, fail)

\* UpdateAnchoringChainTask::run with its result.
task_run(vid, has_privkey, h, anchoring_height, proposal, signed, fail) ==
    IF vid.some
    THEN IF ~has_privkey THEN TaskOutcome("Err", <<>>)
         ELSE task_handle_as_validator(vid.val, h, anchoring_height, proposal, signed, fail)
    ELSE TaskOutcome("Ok", <<>>)

\* The task runs, once, after a commit.
RunTask ==
    /\ genesis_cfg # NoCfg
    /\ call = NoCall
    /\ \E has_privkey \in BOOLEAN, anchoring_height \in 0..(MaxHeight + 1),
          proposal \in TaskProposals, signed \in SUBSET (0..(MaxInputs - 1)),
          fail \in SignFailures :
        LET vid == validator_id(me, actual_cfg)
        IN call' = [op |-> "run", vid |-> vid, has_privkey |-> has_privkey,
                    height |-> height, anchoring_height |-> anchoring_height,
                    proposal |-> proposal, signed |-> signed, fail |-> fail,
                    outcome |-> task_run(vid, has_privkey, height, anchoring_height,
                                         proposal, signed, fail)]
    /\ UNCHANGED <<lect_vars, sync_vars, error_log>>
    /\ UNCHANGED <<schema_vars, updates, config_vars, handler_vars, ops, last>>
    /\ UNCHANGED more_vars

TaskNext ==
    \/ Genesis
    \/ CommitBlock
    \/ RunTask

TaskSpec == Init /\ [][TaskNext]_vars

-----------------------------------------------------------------------------
(* The transition test on its own: any anchoring transaction may be asked
   about, over the lects the validators have reported. *)

\* The anchoring transactions the test is asked about.
ActualLects ==
    {t \in Txs : t.kind = "Anchoring"}
        \cup {[id |-> 10, nid |-> 10, kind |-> "Anchoring", out |-> out,
               prev |-> prev, chain |-> chain] :
                  out \in {Addr3, Addr4}, prev \in {t.id : t \in Txs}, chain \in BOOLEAN}

\* A call of actual_lect_is_transition with the previous transaction it found.
ActualLectIsTransition ==
    /\ genesis_cfg # NoCfg
    /\ call = NoCall
    /\ \E actual_lect \in ActualLects :
        call' = [op |-> "actual_lect_is_transition", lect |-> actual_lect,
                 prev_tx |-> IF actual_lect.prev \in DOMAIN known_txs
                             THEN Some(known_txs[actual_lect.prev]) ELSE None,
                 result |-> actual_lect_is_transition(actual_lect)]
    /\ UNCHANGED <<lect_vars, sync_vars, error_log>>
    /\ UNCHANGED <<schema_vars, updates, config_vars, handler_vars, ops, last>>
    /\ UNCHANGED more_vars

TransitionNext ==
    \/ Genesis
    \/ AddLect
    \/ ActualLectIsTransition

TransitionSpec == SchemaInit /\ [][TransitionNext]_vars

-----------------------------------------------------------------------------
(* The handlers of the Transition and Recovering states, with the proposal
   that the handler caches between commits. *)

\* A proposal: the transaction it spends, the address it pays to and its
\* prev_tx_chain pointer.
Proposal(prev, addr, prev_tx_chain) == [prev |-> prev, out |-> addr, chain |-> prev_tx_chain]

\* The proposal_tx of the handler at the start of a commit: none, or the
\* proposal of an earlier commit.
CachedProposals == {None, Some(Proposal(TxF.id, Addr3, None))}

\* unspent_transactions of the relay for the address: an error, no
\* transaction, or one transaction that pays to the address.
ListingAnswers(addr) ==
    {RelayError, None} \cup {Some(tx) : tx \in {t \in Txs : t.out = addr}}

\* find_lect over the listing of the relay.
find_lect_listed(listing, key, relay_prev) ==
    IF listing.some /\ transaction_is_lect(listing.val, key, relay_prev)
    THEN listing
    ELSE None

\* What update_our_lect leaves: the lect it returns, the lect update it sent
\* and the cached proposal.
LectUpdate(called, found, sent, proposal) ==
    [called |-> called, lect |-> found, sent |-> sent, proposal |-> proposal]

\* send_updated_lect drops the cached proposal and sends the message.
send_updated_lect(tx, lects_count, proposal) ==
    LectUpdate(TRUE, Some(tx), <<LectMsg(tx, lects_count)>>, None)

\* An update_our_lect that sends the lect it found in any case.
update_our_lect_always(key, found, proposal) ==
    IF found.some
    THEN send_updated_lect(found.val, Len(lects[key]), proposal)
    ELSE LectUpdate(TRUE, None, <<>>, proposal)

\* update_our_lect after find_lect has answered.
update_our_lect_sending(key, found, proposal) ==
    IF found.some
    THEN IF found # lect(lects, key)
         THEN send_updated_lect(found.val, Len(lects[key]), proposal)
         ELSE LectUpdate(TRUE, found, <<>>, proposal)
    ELSE LectUpdate(TRUE, None, <<>>, proposal)

\* A handler that did not call update_our_lect.
NoLectUpdate(proposal) == LectUpdate(FALSE, None, <<>>, proposal)

\* What a handler of a state leaves: its result ("Ok", "Err" or "Panic" for
\* an abort), the lect update, the cached proposal, the proposal it created,
\* the transaction it sent to the relay again and whether it tried to
\* finalize the cached proposal.
HandlerOutcome(result, update, proposal, created, resent, finalize) ==
    [result |-> result, update |-> update, proposal |-> proposal, created |-> created,
     resent |-> resent, finalize |-> finalize]

\* create_proposal_tx: the proposal that spends the lect to the address.
create_proposal_tx(tx, addr) == Proposal(tx.id, addr, None)

\* try_create_anchoring_tx_chain: the first proposal of a chain on the
\* address, which spends the funding transaction of the configuration.
try_create_anchoring_tx_chain(cfg, addr, prev_tx_chain) ==
    Proposal(cfg.funding_tx.id, addr, prev_tx_chain)

\* try_finalize_proposal_tx on the cached proposal ends the handler.
try_finalize_proposal_tx(update, fails) ==
    HandlerOutcome(IF fails THEN "Err" ELSE "Ok", update, update.proposal, None, None, TRUE)

\* A handle_transition_state that creates the proposal without asking for
\* the confirmations of the lect.
handle_transition_state_unconfirmed(from, to, h, key, proposal, listing, relay_prev, kind, confirmations, fails) ==
    LET created == IF kind.kind = "Anchoring"
                   THEN Some(create_proposal_tx(kind.tx, cfg_address(to)))
                   ELSE None
    IN HandlerOutcome("Ok", NoLectUpdate(proposal), created, created, None, FALSE)

\* A handle_transition_state that spends a funding lect into the proposal.
handle_transition_state_spending_funding(from, to, h, key, proposal, listing, relay_prev, kind, confirmations, fails) ==
    IF kind.kind = "Funding"
    THEN LET created == Some(create_proposal_tx(kind.tx, cfg_address(to)))
         IN HandlerOutcome("Ok", NoLectUpdate(proposal), created, created, None, FALSE)
    ELSE HandlerOutcome("Err", NoLectUpdate(proposal), proposal, None, None, FALSE)

\* handle_transition_state at the height h for the validator with the given
\* key. listing and relay_prev are the answers of the relay to
\* update_our_lect, kind is the answer of collect_lects, confirmations the
\* answer of the relay for the quorum lect, and fails tells whether the last
\* step of the handler (finalizing or building a proposal) fails.
handle_transition_state(from, to, h, key, proposal, listing, relay_prev, kind, confirmations, fails) ==
    LET addr == cfg_address(to)
        check == h % check_lect_frequency = 0
    IN IF check /\ listing = RelayError
       THEN HandlerOutcome("Err", NoLectUpdate(proposal), proposal, None, None, FALSE)
       ELSE LET update == IF check
                          THEN update_our_lect_sending(
                                   key, find_lect_listed(listing, key, relay_prev), proposal)
                          ELSE NoLectUpdate(proposal)
                quiet(result) ==
                    HandlerOutcome(result, update, update.proposal, None, None, FALSE)
            IN IF update.proposal.some
               THEN try_finalize_proposal_tx(update, fails)
               ELSE CASE kind.kind = "Err" -> quiet("Err")
                      [] kind.kind = "Anchoring" ->
                            IF kind.tx.out = addr THEN quiet("Ok")
                            ELSE IF confirmations = RelayError THEN quiet("Err")
                            ELSE LET count == IF confirmations.some THEN confirmations.val
                                              ELSE 0
                                 IN IF count >= from.utxo_confirmations
                                    THEN LET created == create_proposal_tx(kind.tx, addr)
                                         IN IF fails
                                            THEN quiet("Err")
                                            ELSE HandlerOutcome("Ok", update, Some(created),
                                                                Some(created), None, FALSE)
                                    ELSE quiet("Ok")
                      [] kind.kind = "Funding" -> quiet("Panic")
                      [] OTHER -> quiet("Ok")

\* handle_recovering_state at the height h for the validator with the given
\* key. fails tells whether the relay refuses the transaction that is sent
\* again, or building the proposal fails.
handle_recovering_state(cfg, h, key, proposal, listing, relay_prev, fails) ==
    LET addr == cfg_address(cfg)
        check == h % check_lect_frequency = 0
        finish(update, cached, created, resent) ==
            IF cached.some
            THEN HandlerOutcome("Ok", update, cached, created, resent, TRUE)
            ELSE HandlerOutcome("Ok", update, cached, created, resent, FALSE)
    IN IF ~check THEN finish(NoLectUpdate(proposal), proposal, None, None)
       ELSE IF listing = RelayError
       THEN HandlerOutcome("Err", NoLectUpdate(proposal), proposal, None, None, FALSE)
       ELSE LET update == update_our_lect_sending(
                              key, find_lect_listed(listing, key, relay_prev), proposal)
                stop(result) ==
                    HandlerOutcome(result, update, update.proposal, None, None, FALSE)
            IN IF update.lect.some THEN finish(update, update.proposal, None, None)
               ELSE LET prev == prev_lect(lects, key)
                    IN IF ~prev.some THEN stop("Panic")
                       ELSE IF prev.val.out = addr
                       THEN IF fails THEN stop("Err")
                            ELSE finish(update, update.proposal, None, prev)
                       ELSE IF fails THEN stop("Err")
                       ELSE LET created == try_create_anchoring_tx_chain(
                                               cfg, addr, Some(lect(lects, key).val.id))
                            IN finish(update, Some(created), Some(created), None)

\* A block executes a lect update of the validator of this node.
ExecuteOwnLectUpdate ==
    /\ genesis_cfg # NoCfg
    /\ Idle
    /\ updates < MaxUpdates
    /\ updates' = updates + 1
    /\ validator_id(me, actual_cfg).some
    /\ \E tx \in LectTxs :
        LET v == validator_id(me, actual_cfg).val
        IN SetSchema(add_lect(SchemaNow, me, tx, MsgHash(v, tx, Len(lects[me]))))
    /\ UNCHANGED <<config_vars, handler_vars, ops, last>>
    /\ UNCHANGED task_vars

\* The lect updates the handler sent wait for a block.
PublishLectUpdate(key, update) ==
    lect_pool' = [lect_pool EXCEPT ![key] = @ \cup {update.sent[i] : i \in 1..Len(update.sent)}]

\* after_commit hands the Transition state to handle_transition_state.
HandleTransitionState ==
    /\ anchoring_state.kind = "Transition"
    /\ call = NoCall
    /\ LET from == anchoring_state.from
           to == anchoring_state.to
           key == anchoring_key(from, validator_id(me, from))
       IN \E proposal \in CachedProposals, listing \in ListingAnswers(cfg_address(to)),
             kind \in handler_collect_lects, confirmations \in ConfirmationAnswers,
             fails \in BOOLEAN :
            \E relay_prev \in ListedPrevAnswers(listing) :
            LET outcome == handle_transition_state(from, to, height, key, proposal, listing,
                                                   relay_prev, kind, confirmations, fails)
            IN  /\ call' = [op |-> "handle_transition_state", height |-> height, key |-> key,
                            from |-> from, to |-> to, own |-> lect(lects, key),
                            lects_count |-> Len(lects[key]), cached |-> proposal,
                            kind |-> kind, confirmations |-> confirmations,
                            outcome |-> outcome]
                /\ PublishLectUpdate(key, outcome.update)
    /\ UNCHANGED <<schema_vars, updates, config_vars, handler_vars, ops, last>>
    /\ UNCHANGED <<lect_vars, sync_vars, error_log, anchored_blocks>>

\* after_commit hands the Recovering state to handle_recovering_state.
HandleRecoveringState ==
    /\ anchoring_state.kind = "Recovering"
    /\ call = NoCall
    /\ validator_id(me, actual_cfg).some
    /\ LET cfg == anchoring_state.actual_cfg
           key == anchoring_key(cfg, validator_id(me, cfg))
       IN \E proposal \in CachedProposals, listing \in ListingAnswers(cfg_address(cfg)),
             fails \in BOOLEAN :
            \E relay_prev \in ListedPrevAnswers(listing) :
            LET outcome == handle_recovering_state(cfg, height, key, proposal, listing,
                                                   relay_prev, fails)
            IN /\ call' = [op |-> "handle_recovering_state", height |-> height, key |-> key,
                           addr |-> cfg_address(cfg), own |-> lect(lects, key),
                           prev |-> prev_lect(lects, key),
                           lects_count |-> Len(lects[key]), cached |-> proposal,
                           fails |-> fails, outcome |-> outcome]
               /\ PublishLectUpdate(key, outcome.update)
    /\ UNCHANGED <<schema_vars, updates, config_vars, handler_vars, ops, last>>
    /\ UNCHANGED <<lect_vars, sync_vars, error_log, anchored_blocks>>

\* after_commit hands any other state to its handler, or returns the error.
HandleOtherState ==
    /\ anchoring_state.kind \in {"Auditing", "Anchoring", "Waiting", "Err"}
    /\ anchoring_state' = NoState
    /\ UNCHANGED <<schema_vars, updates, config_vars, me, known_addresses, height,
                   broadcast, ops, last>>
    /\ UNCHANGED task_vars

StateHandlerNext ==
    \/ Genesis
    \/ GenesisFour
    \/ ExecuteOwnLectUpdate
    \/ ExecuteLectBlock
    \/ ProposeConfig
    \/ ActivateConfig
    \/ CommitBlock
    \/ CurrentState
    \/ HandleTransitionState
    \/ HandleRecoveringState
    \/ HandleOtherState

\* The node is a validator of the genesis configuration or one that joins later.
StateHandlerInit == InitTables /\ me \in {"k1", "k4"}

StateHandlerSpec == StateHandlerInit /\ [][StateHandlerNext]_vars

-----------------------------------------------------------------------------
(* transaction_is_lect on its own: the relay lists a transaction for a
   validator, over the lects the validators have reported. *)

\* A call of transaction_is_lect by find_lect for a listed transaction.
TransactionIsLect ==
    /\ genesis_cfg # NoCfg
    /\ call = NoCall
    /\ \E key \in Keys, tx \in Txs :
        \E relay_prev \in PrevAnswers(tx) :
            call' = [op |-> "transaction_is_lect", tx |-> tx, key |-> key,
                     relay_prev |-> relay_prev,
                     position |-> find_lect_position(lect_indexes, key, tx.id),
                     prev_position |-> find_lect_position(lect_indexes, key, tx.prev),
                     prev_lect_count |->
                         IF relay_prev.some
                         THEN LET keys == relay_prev.val.cfg.anchoring_keys
                              IN Cardinality({i \in 1..Len(keys) :
                                     find_lect_position(lect_indexes, keys[i], tx.prev).some})
                         ELSE 0,
                     result |-> transaction_is_lect(tx, key, relay_prev)]
    /\ UNCHANGED <<lect_vars, sync_vars, error_log>>
    /\ UNCHANGED <<schema_vars, updates, config_vars, handler_vars, ops, last>>
    /\ UNCHANGED more_vars

FindLectNext ==
    \/ Genesis
    \/ AddLect
    \/ TransactionIsLect

FindLectSpec == SchemaInit /\ [][FindLectNext]_vars

-----------------------------------------------------------------------------
(* The quorum of the validator's own lect, asked for any configuration. *)

\* The configurations the handler can ask about: the first n validators.
KeysCfg(n) == [Cfg4 EXCEPT !.anchoring_keys = SubSeq(Cfg4.anchoring_keys, 1, n)]
AskedCfgs == {KeysCfg(n) : n \in 1..Len(Cfg4.anchoring_keys)}

\* A call of collect_lects_for_validator for the key of this node, next to
\* collect_lects of the schema for the same configuration. The validators
\* of the node state are those of the actual configuration.
CollectLectsForValidator ==
    /\ genesis_cfg # NoCfg
    /\ call = NoCall
    /\ \E cfg \in AskedCfgs :
        LET validators_count == Len(actual_cfg.anchoring_keys)
        IN call' = [op |-> "collect_lects_for_validator", key |-> me, cfg |-> cfg,
                    validators_count |-> validators_count, own |-> lect(lects, me),
                    schema |-> collect_lects(cfg),
                    result |-> collect_lects_for_validator(me, cfg, validators_count)]
    /\ UNCHANGED <<lect_vars, sync_vars, error_log>>
    /\ UNCHANGED <<schema_vars, updates, config_vars, handler_vars, ops, last>>
    /\ UNCHANGED more_vars

QuorumNext ==
    \/ Genesis
    \/ AddLect
    \/ CollectLectsForValidator

QuorumSpec == SchemaInit /\ [][QuorumNext]_vars

-----------------------------------------------------------------------------
(* Properties of the schema. *)

\* The number of keys of cfg whose last lect has exactly the content tx.
ReportCount(cfg, tx) ==
    Cardinality({i \in 1..Len(cfg.anchoring_keys) :
                    /\ Len(lects[cfg.anchoring_keys[i]]) > 0
                    /\ lects[cfg.anchoring_keys[i]][Len(lects[cfg.anchoring_keys[i]])].tx = tx})

\* C1: every result collect_lects(cfg) can give is Some(tx) exactly when at
\* least cfg.majority_count() keys of cfg report tx as their last lect, and
\* None exactly when no transaction content reaches that count.
C1_CollectLectsQuorum ==
    \A cfg \in Configs : \A r \in collect_lects(cfg) :
        /\ \A tx \in Txs :
              (r = Some(tx)) <=> (ReportCount(cfg, tx) >= cfg_majority_count(cfg))
        /\ (r = None) <=> (\A tx \in Txs : ReportCount(cfg, tx) < cfg_majority_count(cfg))

\* Every validator of Cfg4 reports some lect and no content reaches the
\* quorum of 3: two report the funding transaction, two an anchoring one.
C1_Witness ==
    /\ \A k \in Keys : Len(lects[k]) > 0
    /\ ReportCount(Cfg4, TxF) = 2
    /\ ReportCount(Cfg4, Tx1) = 2
    /\ collect_lects(Cfg4) = {None}
    /\ collect_lects(Cfg3) = {None}

IsPrefix(s, t) == Len(s) <= Len(t) /\ SubSeq(t, 1, Len(s)) = s

\* C2: no step shortens or rewrites a lect list, and a call add_lect(k, tx, h)
\* makes lects(k) one longer with (h, tx) as its last entry and leaves the
\* lect lists of the other keys as they were.
C2_AddLectAppendOnly ==
    [][ /\ \A k \in Keys : IsPrefix(lects[k], lects'[k])
        /\ (last'.op = "add_lect" /\ ops' = ops + 1) =>
              /\ Len(lects'[last'.key]) = Len(lects[last'.key]) + 1
              /\ lects'[last'.key][Len(lects'[last'.key])]
                    = [msg_hash |-> last'.msg_hash, tx |-> last'.tx]
              /\ \A k \in Keys \ {last'.key} : lects'[k] = lects[k] ]_vars

\* add_lect has acted twice on a key that had its genesis lect.
C2_Witness ==
    /\ last.op = "add_lect"
    /\ Len(lects[last.key]) = 3
    /\ lects[last.key][1].tx = TxF
    /\ lects[last.key][3].tx # lects[last.key][2].tx

AddKnownSignatureStep == last'.op = "add_known_signature" /\ ops' = ops + 1

\* C3: a second submission of the message that was just submitted leaves
\* signatures and known_signatures as the first submission left them.
C3_DuplicateSignatureIdempotent ==
    [][ (/\ last.op = "add_known_signature"
         /\ AddKnownSignatureStep
         /\ last'.msg = last.msg)
        => (signatures' = signatures /\ known_signatures' = known_signatures) ]_vars

\* The identical message was submitted again after it had been stored.
C3_Witness ==
    /\ last.op = "add_known_signature"
    /\ last.result = "SignatureDifferent"
    /\ <<last.msg.tx.nid, last.msg.validator, last.msg.input>> \in DOMAIN known_signatures
    /\ known_signatures[<<last.msg.tx.nid, last.msg.validator, last.msg.input>>] = last.msg
    /\ Len(signatures[last.msg.tx.nid]) = 1

\* C4: add_known_signature(msg) with an entry for (normalized txid,
\* validator, input) present returns SignatureDifferent and changes no table,
\* whatever the signature bytes of msg; without such an entry it returns Ok,
\* appends msg to signatures(normalized txid) and records msg under that id.
C4_KnownSignatureKeptOrAdded ==
    [][ AddKnownSignatureStep =>
        LET msg == last'.msg
            id == <<msg.tx.nid, msg.validator, msg.input>>
        IN IF id \in DOMAIN known_signatures
           THEN /\ last'.result = "SignatureDifferent"
                /\ UNCHANGED schema_vars
           ELSE /\ last'.result = "Ok"
                /\ signatures' = [signatures EXCEPT ![msg.tx.nid] = Append(@, msg)]
                /\ DOMAIN known_signatures' = DOMAIN known_signatures \cup {id}
                /\ known_signatures'[id] = msg
                /\ \A x \in DOMAIN known_signatures :
                      known_signatures'[x] = known_signatures[x]
                /\ UNCHANGED <<lects, lect_indexes, known_txs>> ]_vars

\* A message with other signature bytes and another form of the transaction
\* was refused; the first one is still the stored one.
C4_Witness ==
    /\ last.op = "add_known_signature"
    /\ last.result = "SignatureDifferent"
    /\ \E m \in SigMsgs :
        /\ known_signatures[<<last.msg.tx.nid, last.msg.validator, last.msg.input>>] = m
        /\ m.signature # last.msg.signature
        /\ m.tx # last.msg.tx
        /\ signatures[m.tx.nid] = <<m>>

\* C5: right after create_genesis_config(cfg) on the empty schema every key
\* of cfg has the single lect (zero hash, funding transaction) at index 0 and
\* collect_lects(cfg) gives the funding transaction.
C5_GenesisLects ==
    last.op = "create_genesis_config" =>
        /\ \A i \in 1..Len(last.cfg.anchoring_keys) :
            LET k == last.cfg.anchoring_keys[i]
            IN /\ lects[k] = <<[msg_hash |-> ZeroHash, tx |-> last.cfg.funding_tx]>>
               /\ find_lect_position(lect_indexes, k, last.cfg.funding_tx.id) = Some(0)
        /\ collect_lects(last.cfg) = {Some(last.cfg.funding_tx)}

C5_Witness ==
    /\ last.op = "create_genesis_config"
    /\ last.cfg = Cfg3
    /\ ops = 1
    /\ known_txs = Put(EmptyMap, TxF.id, TxF)

-----------------------------------------------------------------------------
(* Properties of the classification. They speak of the state in which       *)
(* current_state has returned and its result waits for its handler: the     *)
(* lects and the configurations are those the classification has read.      *)

ActualAddr == cfg_address(actual_cfg)
IsValidator == validator_id(me, actual_cfg).some
OwnLect == lect(lects, anchoring_key(actual_cfg, validator_id(me, actual_cfg)))
TransitionPending == following_cfg # NoCfg /\ cfg_address(following_cfg) # ActualAddr

\* C6 as amended: a validator classified Anchoring either has a lect of its
\* own, and then no following configuration with another address is pending
\* and this own lect (a funding or an anchoring transaction) pays to the
\* actual address; or it has no lect, and then the quorum lect of the
\* previous configuration is an anchoring transaction that pays to the
\* actual address, or a funding transaction while the previous configuration
\* has the actual address.
C6_AnchoringOwnLectPays ==
    anchoring_state.kind = "Anchoring" =>
        /\ IsValidator
        /\ anchoring_state.cfg = actual_cfg
        /\ IF OwnLect.some
           THEN /\ ~TransitionPending
                /\ OwnLect.val.kind \in {"Funding", "Anchoring"}
                /\ OwnLect.val.out = ActualAddr
           ELSE /\ previous_cfg # NoCfg
                /\ \E q \in collect_lects(previous_cfg) :
                      /\ q.some
                      /\ \/ q.val.kind = "Anchoring" /\ q.val.out = ActualAddr
                         \/ q.val.kind = "Funding" /\ cfg_address(previous_cfg) = ActualAddr

\* A validator is Anchoring on its own anchoring lect while the validators
\* of the actual configuration have no quorum lect.
C6_Witness ==
    /\ anchoring_state.kind = "Anchoring"
    /\ OwnLect = Some(Tx1)
    /\ collect_lects(actual_cfg) = {None}

\* C6 as stated: a validator classified Anchoring has no following
\* configuration with another address pending, and the quorum lect pays to
\* the actual address.
C6_AnchoringQuorumLectPays ==
    anchoring_state.kind = "Anchoring" =>
        /\ ~TransitionPending
        /\ \A q \in collect_lects(actual_cfg) : q.some /\ q.val.out = ActualAddr

TransitionCase ==
    /\ IsValidator
    /\ OwnLect.some
    /\ TransitionPending
    /\ \/ OwnLect.val.kind = "Funding"
       \/ OwnLect.val.kind = "Anchoring" /\ OwnLect.val.out # cfg_address(following_cfg)

\* C7 as amended: a validator is classified Transition exactly when it has a
\* lect of its own, a following configuration with another address exists
\* and this own lect is a funding transaction or an anchoring transaction
\* that does not pay to the following address. In this case the call gives
\* Transition from the actual to the following configuration, or the error
\* of the relay that refused to watch one of the two addresses, or it aborts
\* on debug_assert_eq when the own funding lect is not the funding
\* transaction of the actual configuration.
C7_TransitionOwnLect ==
    /\ anchoring_state.kind = "Transition" =>
          /\ TransitionCase
          /\ anchoring_state.from = actual_cfg
          /\ anchoring_state.to = following_cfg
    /\ (anchoring_state # NoState /\ TransitionCase) =>
          \/ anchoring_state.kind = "Transition"
          \/ /\ anchoring_state.kind = "Err"
             /\ {ActualAddr, cfg_address(following_cfg)} \ known_addresses # {}
          \/ /\ anchoring_state.kind = "Panic"
             /\ OwnLect.val.kind = "Funding"
             /\ OwnLect.val # actual_cfg.funding_tx

\* A validator whose own lect is an anchoring transaction to the actual
\* address is in Transition to the following configuration.
C7_Witness ==
    /\ anchoring_state.kind = "Transition"
    /\ OwnLect = Some(Tx1)
    /\ anchoring_state.to = Cfg4

\* C7 as stated: a validator is classified Transition exactly when a
\* following configuration with another address exists and the quorum lect
\* does not pay to the following address.
C7_TransitionQuorumLect ==
    (IsValidator /\ anchoring_state.kind \notin {"none", "Err", "Panic"}) =>
        (anchoring_state.kind = "Transition" <=>
            /\ TransitionPending
            /\ \A q \in collect_lects(actual_cfg) :
                  ~(q.some /\ q.val.out = cfg_address(following_cfg)))

\* The transaction spends a known transaction that pays to another address:
\* an anchoring transaction, or the funding transaction of the genesis
\* configuration.
IsTransitionTx(tx) ==
    /\ ~tx.chain
    /\ tx.prev \in DOMAIN known_txs
    /\ \/ /\ known_txs[tx.prev].kind = "Anchoring"
          /\ known_txs[tx.prev].out # tx.out
       \/ /\ known_txs[tx.prev] = genesis_cfg.funding_tx
          /\ cfg_address(genesis_cfg) # tx.out

BelowDepth(confirmations) ==
    ~confirmations.some \/ confirmations.val < actual_cfg.utxo_confirmations

\* C8 as amended: when current_state returns Waiting{lect, confirmations},
\* lect is the own lect of the validator. If a following configuration with
\* another address is pending, lect is an anchoring transaction that pays to
\* the following address, with any number of confirmations. Otherwise lect
\* is a funding transaction with an output to the actual address or a
\* transition transaction that pays to the actual address, and its
\* confirmations are unknown or below utxo_confirmations.
C8_WaitingOwnLect ==
    anchoring_state.kind = "Waiting" =>
        /\ IsValidator
        /\ OwnLect = Some(anchoring_state.lect)
        /\ IF TransitionPending
           THEN /\ anchoring_state.lect.kind = "Anchoring"
                /\ anchoring_state.lect.out = cfg_address(following_cfg)
           ELSE /\ anchoring_state.lect.out = ActualAddr
                /\ \/ anchoring_state.lect.kind = "Funding"
                   \/ /\ anchoring_state.lect.kind = "Anchoring"
                      /\ IsTransitionTx(anchoring_state.lect)
                /\ BelowDepth(anchoring_state.confirmations)

\* The configuration with the new address has become the actual one and the
\* validator waits for its transition transaction, which has one
\* confirmation.
C8_Witness ==
    /\ anchoring_state.kind = "Waiting"
    /\ ~TransitionPending
    /\ anchoring_state.lect = Tx2
    /\ IsTransitionTx(Tx2)
    /\ anchoring_state.confirmations = Some(1)

\* C8 as stated: when current_state returns Waiting{lect, confirmations},
\* lect is a funding or a transition transaction and its confirmations are
\* unknown or below utxo_confirmations.
C8_WaitingBelowDepth ==
    anchoring_state.kind = "Waiting" =>
        /\ \/ anchoring_state.lect.kind = "Funding"
           \/ IsTransitionTx(anchoring_state.lect)
           \/ TransitionPending /\ anchoring_state.lect.out = cfg_address(following_cfg)
        /\ BelowDepth(anchoring_state.confirmations)

\* The quorum lect q of the previous configuration does not count for a
\* validator without a lect.
PrevLectUnusable(q) ==
    \/ ~q.some
    \/ q.val.kind = "Funding" /\ cfg_address(previous_cfg) # ActualAddr
    \/ q.val.kind = "Anchoring" /\ q.val.out # ActualAddr

ContinuityBroken ==
    /\ OwnLect.some
    /\ ~TransitionPending
    /\ OwnLect.val.kind \in {"Funding", "Anchoring"}
    /\ OwnLect.val.out # ActualAddr

\* C9 as amended: a validator is classified Recovering exactly when (a) it
\* has no lect of its own and the quorum lect of the previous configuration
\* is absent, or is a funding transaction while the previous configuration
\* has another address than the actual one, or is an anchoring transaction
\* that does not pay to the actual address, whether a following
\* configuration is pending or not; or (b) it has a lect of its own, no
\* following configuration with another address is pending, a previous
\* configuration exists and the own lect is a funding or anchoring
\* transaction without an output to the actual address. In these cases the
\* call gives Recovering, or the error of the relay that refused to watch
\* the actual address; in case (b) without a previous configuration the
\* call aborts.
C9_RecoveringOwnLect ==
    /\ anchoring_state.kind = "Recovering" =>
          /\ IsValidator
          /\ anchoring_state.prev_cfg = previous_cfg
          /\ anchoring_state.actual_cfg = actual_cfg
          /\ previous_cfg # NoCfg
          /\ \/ ~OwnLect.some /\ \E q \in collect_lects(previous_cfg) : PrevLectUnusable(q)
             \/ ContinuityBroken
    /\ (anchoring_state # NoState /\ IsValidator /\ previous_cfg # NoCfg
        /\ \/ ~OwnLect.some /\ \A q \in collect_lects(previous_cfg) : PrevLectUnusable(q)
           \/ ContinuityBroken) =>
          \/ anchoring_state.kind = "Recovering"
          \/ anchoring_state.kind = "Err" /\ ActualAddr \notin known_addresses
    /\ (anchoring_state # NoState /\ IsValidator /\ previous_cfg = NoCfg
        /\ ContinuityBroken) =>
          \/ anchoring_state.kind = "Panic"
          \/ anchoring_state.kind = "Err" /\ ActualAddr \notin known_addresses

\* A validator that was added without a lect is Recovering while a following
\* configuration with another address is pending.
C9_Witness ==
    /\ anchoring_state.kind = "Recovering"
    /\ ~OwnLect.some
    /\ TransitionPending

\* C9 as stated: a validator is classified Recovering exactly when it has no
\* lect and the quorum lect of the previous configuration is absent or does
\* not pay to the actual address, or its own lect has no output to the
\* actual address while no following configuration with another address is
\* pending.
C9_RecoveringNoUsableLect ==
    (IsValidator /\ anchoring_state.kind \notin {"none", "Err", "Panic"}) =>
        (anchoring_state.kind = "Recovering" <=>
            \/ /\ ~OwnLect.some
               /\ \A q \in collect_lects(previous_cfg) :
                     ~q.some \/ q.val.out # ActualAddr
            \/ /\ OwnLect.some
               /\ OwnLect.val.out # ActualAddr
               /\ ~TransitionPending)

-----------------------------------------------------------------------------
(* Lects of no known kind. *)

\* The relay refused to watch an address, so the call returned before it
\* looked at a lect.
WatchRefused ==
    /\ anchoring_state.kind = "Err"
    /\ \/ ActualAddr \notin known_addresses
       \/ TransitionPending /\ cfg_address(following_cfg) \notin known_addresses

\* C11: whenever a lect that the handler examines (the own lect or the
\* quorum lect of the previous configuration in current_state, the quorum
\* lect in collect_lects, the own lect with a quorum in
\* collect_lects_for_validator) is neither a funding nor an anchoring
\* transaction, the call aborts; it gives neither an error nor an answer.
C11_OtherLectIsFatal ==
    /\ (lect_kind.op = "collect_lects"
        /\ \A q \in collect_lects(actual_cfg) : q.some /\ q.val.kind = "Other")
          => lect_kind.result = Panic
    /\ (lect_kind.op = "collect_lects_for_validator"
        /\ OwnLect.some /\ OwnLect.val.kind = "Other"
        /\ lect_kind.result # LectKindNone)
          => lect_kind.result = Panic
    /\ (anchoring_state # NoState /\ IsValidator /\ ~WatchRefused
        /\ \/ OwnLect.some /\ OwnLect.val.kind = "Other"
           \/ /\ ~OwnLect.some
              /\ \A q \in collect_lects(previous_cfg) : q.some /\ q.val.kind = "Other")
          => anchoring_state = Panic

-----------------------------------------------------------------------------
(* A validator is excluded: the transition to the new address. *)

\* C12: a following configuration that excludes a validator is pending or
\* has become the actual one. While it is pending, a remaining validator
\* that gets a state is in Transition as long as its lect does not pay to
\* the new address, and in Waiting once it does. When the new configuration
\* is the actual one, every call of current_state that gives Anchoring to a
\* remaining validator has found its lect to pay to the new address and
\* the relay to report at least utxo_confirmations confirmations of it.
C12_ExclusionTransition ==
    /\ (following_cfg = Cfg3 /\ actual_cfg # Cfg3 /\ validator_id(me, Cfg3).some
        /\ anchoring_state.kind \notin {"none", "Err", "Panic"}) =>
          IF OwnLect.val.out = Addr3
          THEN anchoring_state.kind = "Waiting"
          ELSE anchoring_state = Transition(actual_cfg, Cfg3)
    /\ (actual_cfg = Cfg3 /\ validator_id(me, Cfg3).some /\ Idle) =>
          \A relay \in RelayAnswers :
              \A r \in current_state(me, known_addresses, relay) :
                  r.state.kind = "Anchoring" =>
                      /\ OwnLect.some /\ OwnLect.val.out = Addr3
                      /\ relay.confirmations # RelayError
                      /\ relay.confirmations.some
                      /\ relay.confirmations.val >= Cfg3.utxo_confirmations

\* The remaining validator k1 is Anchoring on the address of three keys with
\* the transition transaction as its lect.
C12_Witness ==
    /\ me = "k1"
    /\ previous_cfg = Cfg4F
    /\ anchoring_state = Anchoring(Cfg3)
    /\ OwnLect = Some(Tx4)
    /\ Len(lects["k1"]) = 3

-----------------------------------------------------------------------------
(* The relay sync task. *)

SyncDone == sync_task # NoCall /\ sync_task.pc = "done"

AtSyncHeight ==
    sync_task.height % (IF sync_task.anchoring_interval \div 2 >= 1
                        THEN sync_task.anchoring_interval \div 2 ELSE 1) = 0

ChainIds(from, to) == [i \in 1..(to - from + 1) |-> anchoring_transactions_chain[from + i - 1].id]

\* What run has sent is the chain from the start index on, in chain order,
\* as far as it got; the start index is the last one whose transaction the
\* relay did not know during the walk while it knew the one spent.
SentFromStart ==
    /\ sync_task.start.some =>
         LET i == sync_task.start.val + 1
         IN /\ anchoring_transactions_chain[i].id \notin sync_task.seen
            /\ anchoring_transactions_chain[i].prev \in sync_task.seen
            /\ \A j \in (i + 1)..Len(anchoring_transactions_chain) :
                 ~(/\ anchoring_transactions_chain[j].id \notin sync_task.seen
                   /\ anchoring_transactions_chain[j].prev \in sync_task.seen)
            /\ sync_task.sent = ChainIds(i, i + Len(sync_task.sent) - 1)
    /\ ~sync_task.start.some => sync_task.sent = <<>>

C14_RejectionIsSuccess ==
    (SyncDone /\ sync_task.rejected) =>
        /\ sync_task.result = "Ok"
        /\ sync_task.next = Len(anchoring_transactions_chain)

\* C15: the sync interval is max(1, anchoring_interval / 2), so at least 1,
\* and a run at a height that is not a multiple of it makes no relay call,
\* sends nothing and returns Ok.
C15_SyncCadence ==
    sync_task # NoCall =>
        LET half == sync_task.anchoring_interval \div 2
            interval == IF half >= 1 THEN half ELSE 1
        IN /\ sync_task.sync_interval = interval
           /\ interval >= 1
           /\ sync_task.height % interval # 0 =>
                /\ SyncDone
                /\ sync_task.calls = 0
                /\ sync_task.sent = <<>>
                /\ sync_task.result = "Ok"

\* A run at height 3 with anchoring interval 4 (sync interval 2) while the
\* relay lacks transactions of the chain.
C15_Witness ==
    /\ SyncDone
    /\ sync_task.height = 3
    /\ sync_task.anchoring_interval = 4
    /\ sync_task.calls = 0
    /\ Len(anchoring_transactions_chain) = 2
    /\ relay_txs = {FundingId}

-----------------------------------------------------------------------------
(* Failures of the relay. *)

\* A relay that answers every call.
RelayAnswering ==
    {relay \in RelayAnswers : relay.watch_actual /\ relay.watch_following
                              /\ relay.confirmations # RelayError}

\* For every call of current_state that the node can make now and that ends
\* with an error: the addresses it has recorded are those whose
\* watch_address call succeeded, and the call of the next commit, made with
\* what was recorded and a relay that answers, does not end with an error.
WatchFailureNotRecorded ==
    (genesis_cfg # NoCfg /\ Idle) =>
        \A relay \in RelayAnswers :
            \A r \in current_state(me, known_addresses, relay) :
                /\ (cfg_address(actual_cfg) \notin known_addresses /\ ~relay.watch_actual) =>
                       r.state = Err /\ r.known = known_addresses
                /\ r.state = Err =>
                       /\ \A addr \in r.known \ known_addresses :
                              \/ addr = cfg_address(actual_cfg) /\ relay.watch_actual
                              \/ /\ following_cfg # NoCfg
                                 /\ addr = cfg_address(following_cfg)
                                 /\ relay.watch_following
                       /\ \A again \in RelayAnswering :
                              \A r2 \in current_state(me, r.known, again) :
                                  r2.state # Err

\* A step that ends with an error of the relay writes nothing to the schema.
ErrorWritesNothing ==
    (\/ anchoring_state' = Err /\ anchoring_state # Err
     \/ lect_check' # lect_check /\ lect_check'.failed /\ ~lect_check'.skipped)
        => /\ UNCHANGED schema_vars
           /\ lect_check' # lect_check => lect_check'.result = "Err"

-----------------------------------------------------------------------------
(* The commit callback and the host. *)

\* C17: the commit callback returns an error to the host exactly when the
\* handler returned a storage error, and then that error; every other
\* handler error gives Ok and is the last entry of the log.
C17_OnlyStorageErrorsPropagate ==
    call.op = "handle_commit" =>
        /\ call.result.kind = "Err" <=>
             (call.handler.kind = "Err" /\ call.handler.error = "Storage")
        /\ call.result.kind = "Err" => call.result = call.handler
        /\ (call.handler.kind = "Err" /\ call.handler.error # "Storage") =>
             /\ call.result = Ok
             /\ error_log # <<>>
             /\ error_log[Len(error_log)] = call.handler.error

\* The handler has failed with an RPC error after an incorrect lect and a
\* missing lect, and the host got Ok.
C17_Witness ==
    /\ call.op = "handle_commit"
    /\ call.handler = ErrOf("Rpc")
    /\ call.result = Ok
    /\ error_log = <<"IncorrectLect", "LectNotFound", "Rpc">>

-----------------------------------------------------------------------------
(* The majority count. *)

\* C18 as stated: for every count of validators from 0 to 255
\* majority_count returns floor(2 * N / 3) + 1 and does not abort.
C18_MajorityCountAllU8 ==
    call.op = "majority_count" =>
        /\ call.outcome.kind = "value"
        /\ call.outcome.val = (2 * call.cnt) \div 3 + 1

\* C19 as stated: the majority count among N validators is the ceiling of
\* 2 * N / 3.
C19_QuorumIsCeiling ==
    call.op = "majority_count" =>
        /\ call.outcome.kind = "value"
        /\ call.outcome.val = (2 * call.cnt + 2) \div 3

\* C19: up to 127 validators the majority count is floor(2 * N / 3) + 1,
\* which is the ceiling of 2 * N / 3 when N is not a multiple of 3 and one
\* more than the ceiling when it is. From 128 validators on the
\* multiplication leaves u8: the build with overflow checks aborts and the
\* other one returns floor((2 * N - 256) / 3) + 1.
C19_QuorumIsFloorPlusOne ==
    call.op = "majority_count" =>
        LET n == call.cnt
            ceiling == (2 * n + 2) \div 3
        IN IF n <= 127
           THEN /\ call.outcome.kind = "value"
                /\ call.outcome.val = (2 * n) \div 3 + 1
                /\ n % 3 # 0 => call.outcome.val = ceiling
                /\ n % 3 = 0 => call.outcome.val = ceiling + 1
           ELSE IF call.outcome.build = "debug"
                THEN call.outcome.kind = "panic"
                ELSE /\ call.outcome.kind = "value"
                     /\ call.outcome.val = (2 * n - 256) \div 3 + 1

\* Three validators need three votes, one more than the ceiling of 2.
C19_Witness ==
    /\ call.op = "majority_count"
    /\ call.cnt = 3
    /\ call.outcome.kind = "value"
    /\ call.outcome.val = 3

-----------------------------------------------------------------------------
(* Finalization. *)

\* C20: finalizing succeeds exactly when every input has at least
\* majority_count(N) signatures; it then embeds for every input exactly
\* majority_count(N) of the given signatures, those of the smallest
\* validator ids, in ascending order of the ids.
C20_FinalizeNeedsMajority ==
    call.op \in {"finalize_tx", "make_signatures"} =>
        LET n == Len(call.cfg.anchoring_keys)
            majority == (2 * n) \div 3 + 1
            inputs == 0..(call.n_inputs - 1)
        IN /\ call.result.kind = "Ok" <=>
                \A input \in inputs : Cardinality(call.signs[input]) >= majority
           /\ call.result.kind = "Ok" =>
                \A input \in inputs :
                    LET e == call.result.embedded[input]
                    IN /\ Len(e) = majority
                       /\ \A i \in 1..Len(e) :
                            /\ e[i].input = input
                            /\ e[i].validator \in call.signs[input]
                       /\ \A i \in 1..(Len(e) - 1) : e[i].validator < e[i + 1].validator
                       /\ \A v \in call.signs[input] :
                            v < e[Len(e)].validator => \E i \in 1..Len(e) : e[i].validator = v

\* Four validators have all signed both inputs, and three signatures are
\* embedded for each input.
C20_Witness ==
    /\ call.op = "finalize_tx"
    /\ call.cfg = Cfg4
    /\ call.n_inputs = 2
    /\ call.signs = [input \in 0..1 |-> 0..3]
    /\ call.result.kind = "Ok"
    /\ Len(call.result.embedded[1]) = 3

-----------------------------------------------------------------------------
(* The builder and the fee. *)

\* C21: the builder fails with InsufficientFunds exactly when the value of
\* the previous output plus the values of the funding outputs is below the
\* fee; otherwise the output of the transaction carries that total minus
\* the fee, which is 0 when the total equals the fee.
C21_InsufficientFundsBelowFee ==
    call.op = "into_transaction" =>
        LET total == call.prev_output_value + sum(call.funding_values)
        IN /\ call.result.kind = "Err" <=> total < call.fee
           /\ call.result.kind = "Err" => call.result.error = "InsufficientFunds"
           /\ call.result.kind = "Ok" => call.result.amount = total - call.fee
           /\ (total = call.fee) => (call.result.kind = "Ok" /\ call.result.amount = 0)

\* The total of 1 + 2 + 1 equals the fee and the output carries 0.
C21_Witness ==
    /\ call.op = "into_transaction"
    /\ call.prev_output_value = 1
    /\ call.funding_values = <<2, 1>>
    /\ call.fee = 4
    /\ call.result.kind = "Ok"
    /\ call.result.amount = 0

-----------------------------------------------------------------------------
(* The lect and the previous lect of a validator. *)

\* lect and prev_lect as the entries of the list.
LectIsLastEntry ==
    \A k \in Keys :
        LET n == Len(lects[k])
        IN /\ lect(lects, k) = IF n = 0 THEN None ELSE Some(lects[k][n].tx)
           /\ prev_lect(lects, k) = IF n < 2 THEN None ELSE Some(lects[k][n - 1].tx)

\* C22: lect(k) is the transaction of the last entry of lects(k) and None
\* for an empty list; prev_lect(k) is the transaction of the entry before
\* the last and None for a list of fewer than two entries; after
\* add_lect(k, tx, h), lect(k) is tx and prev_lect(k) is what lect(k) was
\* before the call.
C22_LectAndPrevLect ==
    /\ []LectIsLastEntry
    /\ [][(last'.op = "add_lect" /\ ops' = ops + 1) =>
             /\ lect(lects', last'.key) = Some(last'.tx)
             /\ prev_lect(lects', last'.key) = lect(lects, last'.key)]_vars

\* add_lect has given k1 a second lect after its genesis lect.
C22_Witness ==
    /\ last.op = "add_lect"
    /\ last.key = "k1"
    /\ Len(lects["k1"]) = 2
    /\ prev_lect(lects, "k1") = Some(TxF)
    /\ lect(lects, "k1") = Some(Tx1)

-----------------------------------------------------------------------------
(* The state hash. *)

\* What a call of state_hash returns: the root of anchored_blocks, then the
\* roots of the lect lists in the order of the keys of the actual
\* configuration.
StateHashShape ==
    (call' # call /\ call'.op = "state_hash") =>
        LET keys == actual_cfg.anchoring_keys
        IN /\ Len(call'.result) = 1 + Len(keys)
           /\ call'.result[1] = [root_of |-> anchored_blocks]
           /\ \A i \in 1..Len(keys) : call'.result[i + 1] = [root_of |-> lects[keys[i]]]

\* anchored_blocks or the lect list of a validator of the actual
\* configuration, before or after the step, changes.
HashedTablesChange ==
    \/ anchored_blocks' # anchored_blocks
    \/ \E i \in 1..Len(actual_cfg.anchoring_keys) :
           lects'[actual_cfg.anchoring_keys[i]] # lects[actual_cfg.anchoring_keys[i]]
    \/ \E i \in 1..Len(actual_cfg'.anchoring_keys) :
           lects'[actual_cfg'.anchoring_keys[i]] # lects[actual_cfg'.anchoring_keys[i]]

\* C23 as stated: state_hash returns 1 + N hashes in that order, and it
\* changes only when anchored_blocks or the lect list of a validator of the
\* actual configuration changes.
C23_StateHashOnlyTables ==
    [][ /\ StateHashShape
        /\ state_hash' # state_hash => HashedTablesChange ]_vars

\* C23: state_hash returns 1 + N hashes in that order; it changes only when
\* anchored_blocks, the lect list of a validator of the actual
\* configuration, or the list of anchoring keys of the actual configuration
\* changes, and it does change when a key is added to that list.
C23_StateHashTablesAndKeys ==
    [][ /\ StateHashShape
        /\ state_hash' # state_hash =>
             \/ HashedTablesChange
             \/ actual_cfg'.anchoring_keys # actual_cfg.anchoring_keys
        /\ Len(actual_cfg'.anchoring_keys) # Len(actual_cfg.anchoring_keys) =>
             state_hash' # state_hash ]_vars

\* The state hash was asked for with four validators, one anchored block and
\* a validator that has updated its lect.
C23_Witness ==
    /\ call.op = "state_hash"
    /\ Len(call.result) = 5
    /\ call.result[1].root_of # <<>>
    /\ Len(call.result[2].root_of) = 2
    /\ call.result[5].root_of = <<>>

-----------------------------------------------------------------------------
(* A transaction that a validator reports again. *)

\* C24 as stated: when add_lect gets a transaction whose id the validator
\* has reported before, the position recorded for that id and the
\* known_txs entry of that id stay as they were.
C24_AddLectKeepsPosition ==
    [][(/\ last'.op = "add_lect"
        /\ ops' = ops + 1
        /\ find_lect_position(lect_indexes, last'.key, last'.tx.id).some) =>
            /\ find_lect_position(lect_indexes', last'.key, last'.tx.id)
                 = find_lect_position(lect_indexes, last'.key, last'.tx.id)
            /\ known_txs'[last'.tx.id] = known_txs[last'.tx.id]]_vars

-----------------------------------------------------------------------------
(* The errors of an auditing node. *)

\* The commit cycle of an auditing node that checks a quorum lect which is
\* a funding transaction absent from the Bitcoin network.
AuditLostFunding ==
    /\ height' = height + 1
    /\ call'.op = "handle_commit"
    /\ height' % check_lect_frequency = 0
    /\ call'.lect.kind = "Funding"
    /\ ~call'.relay_has

\* One IncorrectLect error with the transaction is recorded in the cycle,
\* and the host gets Ok.
RecordsOneIncorrectLect ==
    /\ Len(error_log') = Len(error_log) + 1
    /\ SubSeq(error_log', 1, Len(error_log)) = error_log
    /\ error_log'[Len(error_log')].error = "IncorrectLect"
    /\ error_log'[Len(error_log')].tx = call'.lect.tx
    /\ call'.result = Ok

\* C25 as stated: whenever the quorum lect checked by an auditing node is
\* a funding transaction absent from the Bitcoin network, exactly one
\* IncorrectLect error with that transaction and the reason that the
\* funding transaction was not found is recorded, and processing continues.
C25_LostFundingNotFound ==
    [][AuditLostFunding =>
        /\ RecordsOneIncorrectLect
        /\ error_log'[Len(error_log')].reason
             = "Initial funding_tx not found in the bitcoin blockchain"]_vars

\* C25: a commit cycle of an auditing node that checks a quorum lect which
\* is a funding transaction absent from the Bitcoin network records
\* exactly one IncorrectLect error carrying that transaction and the host
\* gets Ok; the reason is that the funding transaction was not found when
\* the lect is the funding transaction of the genesis configuration, and
\* that it differs from the configuration otherwise.
C25_LostFundingRecordedOnce ==
    [][AuditLostFunding =>
        /\ RecordsOneIncorrectLect
        /\ error_log'[Len(error_log')].reason
             = IF call'.lect.tx = genesis_cfg.funding_tx
               THEN "Initial funding_tx not found in the bitcoin blockchain"
               ELSE "Initial funding_tx from cfg is different than in lect"]_vars

\* The auditing node has recorded that the genesis funding transaction was
\* not found, and the host got Ok.
C25_Witness ==
    /\ call.op = "handle_commit"
    /\ call.result = Ok
    /\ call.lect.kind = "Funding"
    /\ call.lect.tx = genesis_cfg.funding_tx
    /\ ~call.relay_has
    /\ Len(error_log) = 1
    /\ error_log[1] = IncorrectLectError(
           "Initial funding_tx not found in the bitcoin blockchain", TxF)

-----------------------------------------------------------------------------
(* The quorum lect follows the relay. *)

\* A validator whose lect is not the transaction that the relay reports
\* gets that transaction from find_lect, whatever the other validators
\* have published or committed since it was sent.
OwnStepNeverWaits ==
    genesis_cfg # NoCfg =>
        \A i \in 1..Len(actual_cfg.anchoring_keys) :
            LET key == actual_cfg.anchoring_keys[i]
            IN \A tx \in unspent_transactions(cfg_address(actual_cfg)) :
                   tx \in find_lect(key, cfg_address(actual_cfg))

\* C26: when the relay reports the same unspent transaction of the
\* anchoring chain from some point on, collect_lects on the actual
\* configuration eventually returns it, in every order of the commits of
\* the lect updates, and the lect check of a validator never depends on a
\* step that another validator has yet to take.
C26_QuorumConverges ==
    /\ []OwnStepNeverWaits
    /\ \A i \in 1..Len(AnchoringChain) :
          <>[](genesis_cfg # NoCfg
               /\ unspent_transactions(cfg_address(actual_cfg)) = {AnchoringChain[i]})
            => <>(collect_lects(actual_cfg) = {Some(AnchoringChain[i])})

\* The last transaction of the chain is the quorum lect, and the validator
\* k4 never had the transaction before it as its lect.
C26_Witness ==
    /\ unspent_transactions(cfg_address(actual_cfg)) = {Tx5}
    /\ collect_lects(actual_cfg) = {Some(Tx5)}
    /\ lect(lects, "k4") = Some(Tx5)
    /\ ~find_lect_position(lect_indexes, "k4", Tx3.id).some

-----------------------------------------------------------------------------
(* What the classification of current_state depends on. *)

Addresses == {cfg_address(cfg) : cfg \in Configs}

\* The states that current_state can return to this node (one for each
\* build) when the handler knows the given addresses and the relay gives
\* the given answers.
StatesOf(known, relay) == {r.state : r \in current_state(me, known, relay)}

\* The relay refuses to watch an address that the handler does not know.
RelayRefusesWatch(known, relay) ==
    \/ cfg_address(actual_cfg) \notin known /\ ~relay.watch_actual
    \/ /\ following_cfg # NoCfg
       /\ cfg_address(following_cfg) \notin known
       /\ ~relay.watch_following

\* C27 as stated: on the same snapshot, configurations, node and answers of
\* the relay, current_state returns the same result whatever addresses
\* the handler knows.
C27_StateIgnoresKnownAddresses ==
    genesis_cfg # NoCfg =>
        \A relay \in RelayAnswers : \A known \in SUBSET Addresses :
            StatesOf(known, relay) = StatesOf(Addresses, relay)

\* C27: on the same snapshot, configurations, node and answers of the
\* relay, the state that current_state returns does not depend on the
\* addresses the handler knows, with one exception: when the relay refuses
\* to watch an address that the handler does not know yet, the result is
\* the error of the relay instead of the state. A refusal for the actual
\* address always gives the error.
C27_StateFromPersistedFacts ==
    genesis_cfg # NoCfg =>
        \A relay \in RelayAnswers : \A known \in SUBSET Addresses :
            /\ StatesOf(known, relay) # StatesOf(Addresses, relay) =>
                   StatesOf(known, relay) = {Err} /\ RelayRefusesWatch(known, relay)
            /\ (cfg_address(actual_cfg) \notin known /\ ~relay.watch_actual) =>
                   StatesOf(known, relay) = {Err}

\* current_state has returned the error of a relay that refused to watch
\* the actual address, which the handler does not know; with the address
\* known the same answers give a state.
C27_Witness ==
    /\ genesis_cfg # NoCfg
    /\ anchoring_state = Err
    /\ cfg_address(actual_cfg) \notin known_addresses
    /\ \E relay \in RelayAnswers :
        /\ ~relay.watch_actual
        /\ StatesOf(known_addresses, relay) = {Err}
        /\ Err \notin StatesOf(Addresses, relay)

-----------------------------------------------------------------------------
(* Ties for the most votes. *)

\* Two transactions have the same number of votes, and no other has more.
TiedForMostVotes == call.a = call.b /\ call.a > 0

-----------------------------------------------------------------------------
(* The signature transactions of the chain-update task. *)

\* C29: a run of the chain-update task at a height below the next
\* anchoring height broadcasts no signature transaction, and neither does
\* a run for which the schema has no proposal.
C29_NothingBeforeAnchoringHeight ==
    call.op = "run" =>
        ((call.height < call.anchoring_height \/ ~call.proposal.some) =>
            call.outcome.broadcast = <<>>)

\* A validator with its private key and a proposal with unsigned inputs
\* has run the task below the anchoring height: Ok, nothing broadcast.
C29_Witness ==
    /\ call.op = "run"
    /\ call.vid.some
    /\ call.has_privkey
    /\ call.height < call.anchoring_height
    /\ call.proposal = ProposalOf(MaxInputs)
    /\ call.signed = {}
    /\ call.fail = None
    /\ call.outcome = TaskOutcome("Ok", <<>>)

\* The task of a validator has run at or above the anchoring height with a
\* proposal from the schema.
DueProposal ==
    /\ call.op = "run"
    /\ call.vid.some
    /\ call.height >= call.anchoring_height
    /\ call.proposal.some
    /\ call.proposal.val.ok

\* The broadcast holds one signature transaction of this validator for
\* each input below limit that is not recorded as signed, none for the
\* others, in ascending order of the inputs.
OnePerUnsignedInput(limit) ==
    LET sent == call.outcome.broadcast
    IN /\ \A i \in 0..(call.proposal.val.inputs - 1) :
            Cardinality({j \in DOMAIN sent : sent[j].input = i})
              = IF i \in call.signed \/ i >= limit THEN 0 ELSE 1
       /\ \A j \in DOMAIN sent :
            /\ sent[j].validator = call.vid.val
            /\ sent[j].input \in 0..(call.proposal.val.inputs - 1)
       /\ \A j, k \in DOMAIN sent : j < k => sent[j].input < sent[k].input

\* C30 as stated: for a due proposal the task broadcasts one signature
\* transaction for each input not recorded as signed by this validator, in
\* ascending order, with the index and the validator id, and none for a
\* signed input.
C30_OnePerUnsignedInputAlways ==
    DueProposal => OnePerUnsignedInput(call.proposal.val.inputs)

\* The first input for which signing or verification fails in this run:
\* the number of inputs when there is none.
FirstFailure ==
    IF /\ call.fail.some
       /\ call.fail.val.at < call.proposal.val.inputs
       /\ call.fail.val.at \notin call.signed
    THEN call.fail.val.at
    ELSE call.proposal.val.inputs

\* C30: for a due proposal the task of a validator that holds the private
\* key of the output address broadcasts one signature transaction for each
\* input not recorded as signed by this validator, in ascending order, with
\* the index and the validator id, and none for a signed input, up to the
\* first input for which signing fails: it returns Ok when none fails, and
\* otherwise stops with the failure and broadcasts nothing for that input
\* and the later ones. Without the private key it returns an error and
\* broadcasts nothing.
C30_OnePerUnsignedInput ==
    DueProposal =>
        IF call.has_privkey
        THEN /\ OnePerUnsignedInput(FirstFailure)
             /\ call.outcome.result
                  = IF FirstFailure = call.proposal.val.inputs THEN "Ok"
                    ELSE call.fail.val.kind
        ELSE call.outcome = TaskOutcome("Err", <<>>)

\* A validator has signed the second of two inputs before: the run
\* broadcasts the signature of the first input only.
C30_Witness ==
    /\ DueProposal
    /\ call.has_privkey
    /\ call.proposal = ProposalOf(MaxInputs)
    /\ call.signed = {MaxInputs - 1}
    /\ call.fail = None
    /\ Len(call.outcome.broadcast) = MaxInputs - 1
    /\ call.outcome.broadcast[1] = [validator |-> call.vid.val, input |-> 0]
    /\ call.outcome.result = "Ok"

-----------------------------------------------------------------------------
(* The stored signatures and their ids. *)

\* The places of the signatures lists: a normalized txid and an index.
SignaturePlaces ==
    UNION {{<<nid, i>> : i \in DOMAIN signatures[nid]} : nid \in DOMAIN signatures}

\* C31: in every schema state, also after a validator's signature message
\* has been submitted again, the list signatures(txid) holds at most one
\* message for each pair of validator id and input index, and
\* known_signatures holds exactly one entry for each message stored in the
\* lists: the message, under its signature id.
C31_OneSignaturePerContribution ==
    /\ \A p, q \in SignaturePlaces :
          (/\ p[1] = q[1]
           /\ signatures[p[1]][p[2]].validator = signatures[q[1]][q[2]].validator
           /\ signatures[p[1]][p[2]].input = signatures[q[1]][q[2]].input) => p = q
    /\ \A p \in SignaturePlaces :
          LET msg == signatures[p[1]][p[2]]
          IN /\ msg.tx.nid = p[1]
             /\ <<msg.tx.nid, msg.validator, msg.input>> \in DOMAIN known_signatures
             /\ known_signatures[<<msg.tx.nid, msg.validator, msg.input>>] = msg
    /\ \A id \in DOMAIN known_signatures :
          Cardinality({p \in SignaturePlaces :
                          signatures[p[1]][p[2]] = known_signatures[id]}) = 1

\* The signature message of a validator was submitted a second time: the
\* list holds it once and known_signatures has its one entry.
C31_Witness ==
    /\ last.op = "add_known_signature"
    /\ last.result = "SignatureDifferent"
    /\ signatures[last.msg.tx.nid] = <<last.msg>>
    /\ Cardinality(DOMAIN known_signatures) = 1
    /\ Cardinality(SignaturePlaces) = 1

\* The destination script of a previous transaction: the genesis anchoring
\* address for the genesis funding transaction.
DestinationScript(prev) ==
    IF prev = genesis_cfg.funding_tx THEN cfg_address(genesis_cfg) ELSE prev.out

\* A call of the transition test has been made.
TransitionAsked ==
    IF call = NoCall THEN FALSE ELSE call.op = "actual_lect_is_transition"

\* C32 as stated: a lect is a transition exactly when it has no prev_tx_chain
\* pointer, its previous transaction is known, and the destination script of
\* that transaction differs from the output script of the lect.
C32_TransitionExactlyOnScriptChange ==
    TransitionAsked =>
        ((call.result = "yes")
            <=> /\ ~call.lect.chain
                /\ call.prev_tx.some
                /\ DestinationScript(call.prev_tx.val) # call.lect.out)

\* C32: a lect is a transition exactly when it has no prev_tx_chain pointer
\* and its known previous transaction is an anchoring transaction with another
\* output script, or the genesis funding transaction while the genesis address
\* is another script; a previous funding transaction other than the genesis
\* one never makes a transition, and a previous transaction of kind Other
\* aborts the test.
C32_TransitionOnChainScriptChange ==
    TransitionAsked =>
        LET asked == call.lect
            prev == call.prev_tx
            tested == ~asked.chain /\ prev.some
        IN /\ (call.result = "yes")
                <=> /\ tested
                    /\ \/ prev.val.kind = "Anchoring" /\ prev.val.out # asked.out
                       \/ /\ prev.val = genesis_cfg.funding_tx
                          /\ cfg_address(genesis_cfg) # asked.out
           /\ (call.result = "panic") <=> (tested /\ prev.val.kind = "Other")

\* A lect on another address than its known anchoring predecessor was asked about.
C32_Witness ==
    /\ TransitionAsked
    /\ call.lect = Tx2
    /\ call.prev_tx = Some(Tx1)
    /\ call.result = "yes"

\* The handler of the Transition state has run.
TransitionHandled ==
    IF call = NoCall THEN FALSE ELSE call.op = "handle_transition_state"

\* The confirmations the handler counts for the quorum lect: 0 when the
\* relay does not know the count.
CountedConfirmations ==
    IF call.confirmations = RelayError THEN 0
    ELSE IF call.confirmations.some THEN call.confirmations.val ELSE 0

\* C33: in the Transition state a proposal to the following address is
\* created only when no proposal is cached once the lect check of the commit
\* is over, the quorum lect is an anchoring transaction on another address
\* than the following one, and the relay gives it at least utxo_confirmations
\* confirmations; with fewer or unknown confirmations, with a quorum lect on
\* the following address, or without a quorum lect, none is created.
C33_TransitionProposalOnlyWhenDue ==
    TransitionHandled =>
        LET outcome == call.outcome
            addr == cfg_address(call.to)
        IN /\ outcome.created.some =>
                /\ ~outcome.update.proposal.some
                /\ call.kind.kind = "Anchoring"
                /\ call.kind.tx.out # addr
                /\ call.confirmations # RelayError
                /\ CountedConfirmations >= call.from.utxo_confirmations
                /\ outcome.created.val = Proposal(call.kind.tx.id, addr, None)
           /\ (\/ CountedConfirmations < call.from.utxo_confirmations
               \/ call.kind.kind = "None"
               \/ call.kind.kind = "Anchoring" /\ call.kind.tx.out = addr)
                => ~outcome.created.some

\* A proposal was created for a quorum lect with exactly utxo_confirmations
\* confirmations.
C33_Witness ==
    /\ TransitionHandled
    /\ ~call.cached.some
    /\ call.kind = LectKind(Tx1)
    /\ call.confirmations = Some(call.from.utxo_confirmations)
    /\ call.outcome.created = Some(Proposal(Tx1.id, Addr4, None))

\* The handler of the Recovering state has run.
RecoveringHandled ==
    IF call = NoCall THEN FALSE ELSE call.op = "handle_recovering_state"

\* The handler looked for a lect of the current address and found none, and
\* neither the relay nor the builder failed afterwards.
NoLectFound ==
    /\ call.outcome.update.called
    /\ ~call.outcome.update.lect.some
    /\ ~call.fails

\* C34 as stated: in the Recovering state, at a height that is a multiple of
\* check_lect_frequency where no lect is found, the handler sends the previous
\* lect again if it pays to the current address and otherwise starts a chain
\* whose prev_tx_chain pointer is the id of the current lect; at every other
\* height it updates no lect and only tries to finalize a cached proposal.
C34_RecoveringResendsOrRestarts ==
    RecoveringHandled =>
        LET outcome == call.outcome
        IN IF call.height % check_lect_frequency = 0
           THEN NoLectFound =>
                    IF call.prev.some /\ call.prev.val.out = call.addr
                    THEN outcome.resent = call.prev /\ ~outcome.created.some
                    ELSE /\ outcome.created.some
                         /\ outcome.created.val.chain = Some(call.own.val.id)
                         /\ ~outcome.resent.some
           ELSE /\ ~outcome.update.called
                /\ outcome.update.sent = <<>>
                /\ ~outcome.created.some
                /\ ~outcome.resent.some
                /\ outcome.finalize <=> call.cached.some

\* What holds of the handler of the Recovering state: as stated for a
\* validator with a previous lect, and an abort for a validator without one.
RecoveringAbortsWithoutPreviousLect ==
    RecoveringHandled =>
        LET outcome == call.outcome
        IN IF call.height % check_lect_frequency = 0
           THEN NoLectFound =>
                    IF ~call.prev.some
                    THEN outcome.result = "Panic" /\ ~outcome.created.some /\ ~outcome.resent.some
                    ELSE IF call.prev.val.out = call.addr
                    THEN outcome.resent = call.prev /\ ~outcome.created.some
                    ELSE /\ outcome.created.some
                         /\ outcome.created.val.chain = Some(call.own.val.id)
                         /\ ~outcome.resent.some
           ELSE /\ ~outcome.update.called
                /\ outcome.update.sent = <<>>
                /\ ~outcome.created.some
                /\ ~outcome.resent.some
                /\ outcome.finalize <=> call.cached.some

\* The previous lect was sent again, and a chain was started.
RecoveringResent ==
    RecoveringHandled /\ call.outcome.resent = Some(Tx2) /\ call.own = Some(Tx1)
RecoveringRestarted ==
    /\ RecoveringHandled
    /\ call.own = Some(Tx1)
    /\ call.outcome.created = Some(Proposal(TxF.id, Addr4, Some(Tx1.id)))

\* A validator with a single lect, on another address than the current one,
\* found no lect at a check height and the handler aborted.
C34_Witness ==
    /\ RecoveringHandled
    /\ call.height % check_lect_frequency = 0
    /\ NoLectFound
    /\ call.own = Some(TxF)
    /\ ~call.prev.some
    /\ call.outcome.result = "Panic"

\* A handler has called update_our_lect and the relay has listed the
\* unspent transactions.
LectUpdateCalled ==
    IF call = NoCall THEN FALSE
    ELSE /\ call.op \in {"handle_transition_state", "handle_recovering_state"}
         /\ call.outcome.update.called

\* C35: update_our_lect publishes a lect update exactly when find_lect gives
\* a transaction other than the last lect of the validator; the message
\* carries that transaction and the length of the lect list of the validator,
\* and the cached proposal is dropped; when the transaction found is the last
\* lect or none is found, nothing is published and the cached proposal stays.
C35_PublishesOnlyNewLect ==
    LectUpdateCalled =>
        LET update == call.outcome.update
            differs == update.lect.some /\ update.lect # call.own
        IN /\ (update.sent # <<>>) <=> differs
           /\ differs => /\ update.sent = <<LectMsg(update.lect.val, call.lects_count)>>
                         /\ update.proposal = None
                         /\ LectMsg(update.lect.val, call.lects_count) \in lect_pool[call.key]
           /\ ~differs => /\ update.proposal = call.cached
                          /\ lect_pool[call.key] = {}

\* A lect update was published while a proposal was cached.
C35_Witness ==
    /\ LectUpdateCalled
    /\ call.cached.some
    /\ call.own = Some(Tx1)
    /\ call.outcome.update.sent = <<LectMsg(Tx2, 2)>>
    /\ call.outcome.update.proposal = None

\* The handler of the Transition state has run for a validator whose lect,
\* and the quorum lect, is the genesis funding transaction.
TransitionOnGenesisFunding ==
    /\ TransitionHandled
    /\ call.own = Some(genesis_cfg.funding_tx)
    /\ call.kind = LectKind(genesis_cfg.funding_tx)

\* C40 as stated: with the genesis funding transaction as lect, handling the
\* Transition state aborts.
C40_FundingLectAbortsTransition ==
    TransitionOnGenesisFunding => call.outcome.result = "Panic"

\* The handler got to the quorum lect: the listing of the lect check did not
\* fail and no proposal was cached after it.
LectListingFailed ==
    call.height % check_lect_frequency = 0 /\ ~call.outcome.update.called
ReachedQuorumLect ==
    ~LectListingFailed /\ ~call.outcome.update.proposal.some

\* The lect of the validator is the genesis funding transaction and a
\* following configuration with another address is pending.
FundingLectWithPendingAddress ==
    /\ genesis_cfg # NoCfg
    /\ validator_id(me, actual_cfg).some
    /\ lect(lects, me) = Some(genesis_cfg.funding_tx)
    /\ following_cfg # NoCfg
    /\ cfg_address(following_cfg) # cfg_address(actual_cfg)

\* C40: a validator whose lect is the genesis funding transaction is
\* classified Transition when a following configuration with another address
\* is pending, unless the relay refuses an address or, in a build with debug
\* assertions, the actual configuration has another funding transaction.
\* With the genesis funding transaction as quorum lect, handling the
\* Transition state aborts exactly when the handler gets to the quorum lect;
\* when the listing of the lect check fails it returns the error, and with a
\* cached proposal it tries to finalize that proposal. A proposal created in
\* the Transition state always spends an anchoring transaction.
C40_FundingLectAbortsAtQuorumLect ==
    /\ FundingLectWithPendingAddress =>
        \A relay \in RelayAnswers : \A r \in current_state(me, known_addresses, relay) :
            \/ r.state.kind \in {"Transition", "Err"}
            \/ r.state = Panic /\ genesis_cfg.funding_tx # actual_cfg.funding_tx
    /\ TransitionOnGenesisFunding =>
        /\ (call.outcome.result = "Panic") <=> ReachedQuorumLect
        /\ ~call.outcome.created.some
        /\ LectListingFailed => call.outcome.result = "Err"
        /\ (~LectListingFailed /\ call.outcome.update.proposal.some) => call.outcome.finalize
    /\ (TransitionHandled /\ call.outcome.created.some) =>
        /\ call.kind.kind = "Anchoring"
        /\ call.outcome.created.val.prev = call.kind.tx.id

\* The handler aborted on the genesis funding transaction.
C40_Witness ==
    /\ TransitionOnGenesisFunding
    /\ ~call.cached.some
    /\ call.to = Cfg4
    /\ call.outcome.result = "Panic"

\* find_lect has asked transaction_is_lect about a listed transaction.
LectAsked ==
    IF call = NoCall THEN FALSE ELSE call.op = "transaction_is_lect"

\* One of the three grounds on which a transaction is taken as a lect: it is
\* in the lect index of the validator; it is the genesis funding transaction;
\* it is an anchoring transaction that spends a transaction of that index or
\* one that the relay knows and that at least majority_count validators of
\* the configuration of its height have in their lect index.
AcceptedOnGround ==
    \/ call.position.some
    \/ call.tx.kind = "Funding" /\ call.tx = genesis_cfg.funding_tx
    \/ /\ call.tx.kind = "Anchoring"
       /\ \/ call.prev_position.some
          \/ /\ call.relay_prev.some
             /\ call.prev_lect_count >= cfg_majority_count(call.relay_prev.val.cfg)

OwnQuorumAsked ==
    IF call = NoCall THEN FALSE ELSE call.op = "collect_lects_for_validator"

\* C37 as stated: collect_lects_for_validator gives the lect of the validator
\* exactly when collect_lects of the schema gives that lect for the same
\* configuration, and None otherwise, whatever the number of validators of
\* the node state is.
C37_QuorumsAgree ==
    OwnQuorumAsked =>
        IF call.own.some /\ call.schema = {call.own}
        THEN call.result = LectKind(call.own.val)
        ELSE call.result = LectKindNone

\* The two quorums of the genesis funding transaction disagree: the schema
\* counts against the two keys of the configuration, the handler against the
\* three validators of the node state.
C37_Witness ==
    /\ OwnQuorumAsked
    /\ call.cfg = KeysCfg(2)
    /\ call.validators_count = 3
    /\ call.own = Some(TxF)
    /\ call.schema = {Some(TxF)}
    /\ call.result = LectKindNone

\* The states after_commit hands to a handler.
HandledStates == {"Auditing", "Anchoring", "Transition", "Waiting", "Recovering"}

\* The lect of the validator of this node is neither a funding nor an
\* anchoring transaction.
OwnLectOfNoKind ==
    /\ validator_id(me, actual_cfg).some
    /\ lect(lects, me).some
    /\ lect(lects, me).val.kind \notin {"Funding", "Anchoring"}

\* C38: current_state never gives the Broken state: whatever the relay
\* answers, it gives one of Auditing, Anchoring, Transition, Waiting and
\* Recovering, or returns the error of the relay, or aborts; a lect of the
\* validator that is neither funding nor anchoring makes it abort (or return
\* the error of the relay before it gets to the lect), and the state that
\* after_commit holds is never Broken.
C38_CurrentStateNeverBroken ==
    /\ anchoring_state.kind \in HandledStates \cup {"none", "Err", "Panic"}
    /\ genesis_cfg # NoCfg =>
        \A relay \in RelayAnswers : \A r \in current_state(me, known_addresses, relay) :
            /\ r.state.kind \in HandledStates \cup {"Err", "Panic"}
            /\ OwnLectOfNoKind => r.state.kind \in {"Err", "Panic"}

\* current_state aborted on a lect of the validator that is of no known kind.
C38_Witness ==
    /\ OwnLectOfNoKind
    /\ anchoring_state = Panic

\* C39: in every schema state reached through create_genesis_config and
\* add_lect, for every validator key k and transaction id t, a position
\* find_lect_position(k, t) = i lies inside lects(k) and the entry at that
\* position holds the transaction with the id t; every transaction of a lect
\* list is in known_txs under its id; and every id of a transaction of
\* lects(k) has a position in lect_indexes(k).
C39_IndexesMatchLects ==
    \A k \in Keys :
        /\ \A t \in DOMAIN lect_indexes[k] :
            LET i == find_lect_position(lect_indexes, k, t).val
            IN /\ find_lect_position(lect_indexes, k, t).some
               /\ i < Len(lects[k])
               /\ lects[k][i + 1].tx.id = t
        /\ \A n \in 1..Len(lects[k]) :
            LET tx == lects[k][n].tx
            IN /\ tx.id \in DOMAIN known_txs
               /\ known_txs[tx.id] = tx
               /\ find_lect_position(lect_indexes, k, tx.id).some

\* A validator reported a transaction, another one, and the first one again:
\* the index of the first transaction is its last position.
C39_Witness ==
    /\ Len(lects["k1"]) = 3
    /\ lects["k1"][1].tx = lects["k1"][3].tx
    /\ lects["k1"][2].tx # lects["k1"][1].tx
    /\ find_lect_position(lect_indexes, "k1", lects["k1"][1].tx.id) = Some(2)

====
